---- MODULE Spec2Model ----
(***************************************************************************)
(* A model of aliyun_ddns_domain_selector.py: the DNS manager window       *)
(* (DNSManagerUI), its background workers (WorkerThread,                   *)
(* UpdateCheckThread), the provider client (AliyunDNSClient) and the       *)
(* provider's record set the client talks to.                              *)
(*                                                                         *)
(* Text that the code inspects character by character (IP addresses,       *)
(* version tags) is a sequence of one-character strings; text the code     *)
(* only compares or concatenates (domain names, record ids) is a string.   *)
(***************************************************************************)
EXTENDS Integers, Sequences, FiniteSets, TLC

(***************************************************************************)
(* Bounds of the model.                                                    *)
(***************************************************************************)
\* thread objects of one class (WorkerThread, UpdateCheckThread) alive at once
MaxOps == 2
\* user actions (clicks, saves) over a run
MaxActions == 2

(***************************************************************************)
(* Characters and splitting.                                               *)
(***************************************************************************)
Digits == {"0", "1", "2", "3", "4", "5", "6", "7", "8", "9"}
HexDigits == Digits \cup {"a", "b", "c", "d", "e", "f", "A", "B", "C", "D", "E", "F"}

\* Python's str.split(sep) for a one-character separator: the pieces
\* between the separators, empty pieces included.
RECURSIVE SplitFrom(_, _, _, _)
SplitFrom(s, sep, i, cur) ==
    IF i > Len(s) THEN <<cur>>
    ELSE IF s[i] = sep THEN <<cur>> \o SplitFrom(s, sep, i + 1, <<>>)
    ELSE SplitFrom(s, sep, i + 1, Append(cur, s[i]))

Split(s, sep) == SplitFrom(s, sep, 1, <<>>)

\* In Python's re, "$" matches at the end of the text and also just before
\* a newline that ends the text.
DollarBody(s) ==
    IF Len(s) > 0 /\ s[Len(s)] = "\n" THEN {s, SubSeq(s, 1, Len(s) - 1)} ELSE {s}

AllIn(seg, chars) == \A i \in 1..Len(seg) : seg[i] \in chars

(***************************************************************************)
(* DNSManagerUI.is_valid_ipv4 / is_valid_ipv6.                             *)
(***************************************************************************)
\* a variant of OctetMatch: any one to three digits
OctetMatchAnyDigits(seg) == Len(seg) \in 1..3 /\ AllIn(seg, Digits)

\* One alternative of (25[0-5]|2[0-4][0-9]|[01]?[0-9][0-9]?)
OctetMatch(seg) ==
    \/ Len(seg) = 3 /\ seg[1] = "2" /\ seg[2] = "5"
                    /\ seg[3] \in {"0", "1", "2", "3", "4", "5"}
    \/ Len(seg) = 3 /\ seg[1] = "2" /\ seg[2] \in {"0", "1", "2", "3", "4"}
                    /\ seg[3] \in Digits
    \/ Len(seg) = 3 /\ seg[1] \in {"0", "1"} /\ seg[2] \in Digits /\ seg[3] \in Digits
    \/ Len(seg) \in {1, 2} /\ AllIn(seg, Digits)

Ipv4Body(s) ==
    LET parts == Split(s, ".")
    IN  Len(parts) = 4 /\ \A i \in 1..4 : OctetMatch(parts[i])

is_valid_ipv4(ip) == \E b \in DollarBody(ip) : Ipv4Body(b)

\* a variant of HextetMatch: any number of hex digits
HextetMatchAnyLength(seg) == Len(seg) > 0 /\ AllIn(seg, HexDigits)

HextetMatch(seg) == Len(seg) \in 1..4 /\ AllIn(seg, HexDigits)

Ipv6Body(s) ==
    LET parts == Split(s, ":")
    IN  Len(parts) = 8 /\ \A i \in 1..8 : HextetMatch(parts[i])

is_valid_ipv6(ip) == \E b \in DollarBody(ip) : Ipv6Body(b)

\* variants of RecordType: the two types exchanged; no None
RecordTypeFlipped(ip) ==
    IF is_valid_ipv4(ip) THEN "AAAA" ELSE IF is_valid_ipv6(ip) THEN "A" ELSE "None"

RecordTypeLax(ip) == IF is_valid_ipv6(ip) THEN "AAAA" ELSE "A"

\* set_dns_record, line 1187: the record type of an address, None if invalid
RecordType(ip) ==
    IF is_valid_ipv4(ip) THEN "A" ELSE IF is_valid_ipv6(ip) THEN "AAAA" ELSE "None"

(***************************************************************************)
(* Sample data: the account's domains, the texts a user types, the         *)
(* provider's records when the window opens.                               *)
(***************************************************************************)
D1 == "a.com"
D2 == "b.com"

Ip4 == <<"1", ".", "2", ".", "3", ".", "4">>
Ip4Old == <<"9", ".", "9", ".", "9", ".", "9">>
Ip6 == <<"1", ":", "2", ":", "3", ":", "4", ":", "5", ":", "6", ":", "7", ":", "8">>
IpOver == <<"2", "5", "6", ".", "0", ".", "0", ".", "1">>
IpCompressed == <<":", ":", "1">>

\* what the user has typed when the set button is clicked:
\* <<subdomain_edit.text().strip(), ip_edit.text().strip()>>
UserInputs == {<<"www", Ip4>>, <<"", Ip6>>, <<"www", IpOver>>, <<"", IpCompressed>>,
               <<"www", <<>> >>}

\* what DescribeDomains returns for the account
DomainLists == {<<>>, <<D1, D2>>}

\* AccessKey.json: the pair (access_key_id, access_key_secret), stripped
NoKey == [access_key_id |-> "", access_key_secret |-> ""]
Key1 == [access_key_id |-> "id1", access_key_secret |-> "s1"]
Key2 == [access_key_id |-> "id2", access_key_secret |-> "s2"]
Configs == {NoKey, Key1, Key2}
\* what the user saves in the configuration dialog
TypedConfigs == {NoKey, Key2}
Complete(c) == c.access_key_id # "" /\ c.access_key_secret # ""

\* a provider record (DescribeDomainRecords' Record)
Rec(id, dom, rr, type, value, status) ==
    [RecordId |-> id, DomainName |-> dom, RR |-> rr, Type |-> type,
     Value |-> value, Status |-> status]

InitRecordLists ==
    { <<Rec(1, D1, "www", "A", Ip4Old, "ENABLE"),
        Rec(2, D1, "www", "CNAME", <<"x">>, "ENABLE")>> }

Ip4Other == <<"8", ".", "8", ".", "8", ".", "8">>

\* the provider's records of an account where www.a.com has two A records,
\* the one with the higher id listed first
ManyRecordLists ==
    { <<Rec(1, D1, "www", "CNAME", <<"x">>, "ENABLE"),
        Rec(3, D1, "www", "A", Ip4Old, "ENABLE"),
        Rec(2, D1, "www", "A", Ip4Other, "DISABLE")>> }

\* a variant of FirstRecordIdOrNone: the last record's id
LastRecordIdOrNone(found) == IF Len(found) > 0 THEN found[Len(found)].RecordId ELSE 0

\* the detail text of a ClientException / ServerException
ProviderDetail == "SDK.ServerError"

(***************************************************************************)
(* AliyunDNSClient and the provider's side of each request.                *)
(***************************************************************************)
\* get_record_id line 128, get_domain_records line 158
FullDomain(rr, main_domain) ==
    IF rr # "@" THEN rr \o "." \o main_domain ELSE main_domain

\* DescribeSubDomainRecords(SubDomain, Type): the matching records, in the
\* provider's order
SubDomainRecords(recs, full_sub_domain, record_type) ==
    SelectSeq(recs, LAMBDA r : /\ FullDomain(r.RR, r.DomainName) = full_sub_domain
                               /\ r.Type = record_type)

\* get_record_id lines 137-139: the first record's id, None (0) if none
FirstRecordIdOrNone(found) == IF Len(found) > 0 THEN found[1].RecordId ELSE 0

get_record_id(recs, main_domain, sub_domain, record_type) ==
    FirstRecordIdOrNone(
        SubDomainRecords(recs, FullDomain(sub_domain, main_domain), record_type))

\* set_PageSize(100), line 148: the request asks for pages of 100 records
PageSize == 100

\* DescribeDomainRecords for DomainName = main_domain, lines 145-151: the
\* first page of the domain's records, in the provider's order (no
\* PageNumber is set and no further page is asked for)
DomainRecords(recs, main_domain) ==
    LET all == SelectSeq(recs, LAMBDA r : r.DomainName = main_domain)
    IN  IF Len(all) > PageSize THEN SubSeq(all, 1, PageSize) ELSE all

\* get_domain_records lines 156-166: the dictionary built for one record
Decorated(r, main_domain) ==
    [full_domain |-> FullDomain(r.RR, main_domain),
     rr |-> r.RR, type |-> r.Type, value |-> r.Value,
     record_id |-> r.RecordId, status |-> r.Status]

\* get_domain_records lines 153-167: the loop over the response's records
RECURSIVE get_domain_records_loop(_, _)
get_domain_records_loop(resp, main_domain) ==
    IF resp = <<>> THEN <<>>
    ELSE IF Head(resp).Type \in {"A", "AAAA"}
         THEN <<Decorated(Head(resp), main_domain)>>
              \o get_domain_records_loop(Tail(resp), main_domain)
         ELSE get_domain_records_loop(Tail(resp), main_domain)

get_domain_records(recs, main_domain) ==
    get_domain_records_loop(DomainRecords(recs, main_domain), main_domain)

HasRecord(recs, id) == \E i \in 1..Len(recs) : recs[i].RecordId = id

\* UpdateDomainRecord(RecordId, RR, Type, Value)
RECURSIVE UpdateDomainRecord(_, _, _, _, _)
UpdateDomainRecord(recs, id, rr, type, value) ==
    IF recs = <<>> THEN <<>>
    ELSE <<IF Head(recs).RecordId = id
           THEN [Head(recs) EXCEPT !.RR = rr, !.Type = type, !.Value = value]
           ELSE Head(recs)>> \o UpdateDomainRecord(Tail(recs), id, rr, type, value)

\* AddDomainRecord(DomainName, RR, Type, Value): a new record, enabled
AddDomainRecord(recs, id, dom, rr, type, value) ==
    Append(recs, Rec(id, dom, rr, type, value, "ENABLE"))

\* the provider reads the Status parameter without regard to case
StatusOf(status) == IF status \in {"ENABLE", "enable", "Enable"} THEN "ENABLE" ELSE "DISABLE"

\* SetDomainRecordStatus(RecordId, Status)
RECURSIVE SetDomainRecordStatus(_, _, _)
SetDomainRecordStatus(recs, id, status) ==
    IF recs = <<>> THEN <<>>
    ELSE <<IF Head(recs).RecordId = id
           THEN [Head(recs) EXCEPT !.Status = StatusOf(status)]
           ELSE Head(recs)>> \o SetDomainRecordStatus(Tail(recs), id, status)

\* DeleteDomainRecord(RecordId)
DeleteDomainRecord(recs, id) == SelectSeq(recs, LAMBDA r : r.RecordId # id)

(***************************************************************************)
(* UpdateCheckThread: the tag pattern and the comparison.                  *)
(***************************************************************************)
\* CURRENT_VERSION, line 24
CURRENT_VERSION == <<"v", "2", ".", "0", ".", "0">>

TagNewer == <<"v", "2", ".", "0", ".", "1">>
TagNoV == <<"2", ".", "0", ".", "1">>
\* tag_name of the latest release, as fetched
TagSamples == {TagNewer, CURRENT_VERSION, TagNoV}

\* re.match(r'^v\d+\.\d+\.\d+$', latest_version), line 54
VersionBody(s) ==
    /\ Len(s) > 0 /\ s[1] = "v"
    /\ LET parts == Split(Tail(s), ".")
       IN  /\ Len(parts) = 3
           /\ \A i \in 1..3 : Len(parts[i]) > 0 /\ AllIn(parts[i], Digits)

VersionMatch(tag) == \E b \in DollarBody(tag) : VersionBody(b)

DigitValue(c) == CHOOSE n \in 0..9 : ToString(n) = c

\* int(text) of a digit string; int() ignores surrounding whitespace
RECURSIVE IntOf(_)
IntOf(seg) ==
    IF seg = <<>> THEN 0
    ELSE IF seg[Len(seg)] = "\n" THEN IntOf(SubSeq(seg, 1, Len(seg) - 1))
    ELSE 10 * IntOf(SubSeq(seg, 1, Len(seg) - 1)) + DigitValue(seg[Len(seg)])

\* list(map(int, v[1:].split('.'))), lines 71-72
VersionNumbers(v) ==
    LET parts == Split(Tail(v), ".") IN [i \in 1..Len(parts) |-> IntOf(parts[i])]

Min(a, b) == IF a < b THEN a ELSE b

\* the loop of lines 74-79 from position i on
RECURSIVE NewerFrom(_, _, _)
NewerFrom(l, c, i) ==
    IF i > Min(Len(l), Len(c)) THEN FALSE
    ELSE IF l[i] > c[i] THEN TRUE
    ELSE IF l[i] < c[i] THEN FALSE
    ELSE NewerFrom(l, c, i + 1)

\* a variant of is_new_version: the first component alone decides
is_new_version_major(latest, current) ==
    VersionNumbers(latest)[1] > VersionNumbers(current)[1]

is_new_version(latest, current) ==
    NewerFrom(VersionNumbers(latest), VersionNumbers(current), 1)

(***************************************************************************)
(* Messages: the text of a log line or of a worker's result, by its fixed  *)
(* part (tag) and the values formatted into it.                            *)
(***************************************************************************)
M(tag) == [tag |-> tag, main |-> "", sub |-> "", type |-> "", ip |-> <<>>,
           n |-> 0, detail |-> "", version |-> <<>>]

(***************************************************************************)
(* State.                                                                  *)
(***************************************************************************)
VARIABLES
    config,         \* AccessKey.json (CONFIG_PATH)
    dns_client,     \* DNSManagerUI.dns_client
    acct_domains,   \* provider: the account's domains
    records,        \* provider: the records, in the provider's order
    next_id,        \* provider: the id the next new record gets
    orphans,        \* requests of terminated workers still on their way
    rendered_ids,   \* history: the record ids the table has shown
    workers,        \* the WorkerThread objects
    worker_thread,  \* DNSManagerUI.worker_thread (0 is None)
    checks,         \* the UpdateCheckThread objects
    update_thread,  \* DNSManagerUI.update_thread
    queue,          \* signals emitted by threads, not yet handled by the UI thread
    domain_combo,   \* DNSManagerUI.domain_combo: items and current index (0: none)
    records_table,  \* DNSManagerUI.records_table: the rows, each with its buttons
    log,            \* DNSManagerUI.log_text: its newest entry
    modal,          \* the delete confirmation that is open, if any
    event,          \* the user action the step just taken handled, if any: its
                    \* handler, the IP text it read, the warning box it showed
    n_actions,      \* user actions so far
    frame           \* a call of one of the program's functions on its own: the
                    \* function, its arguments, where the call is, what it returned

vars == <<config, dns_client, acct_domains, records, next_id, orphans, rendered_ids,
          workers, worker_thread, checks, update_thread, queue,
          domain_combo, records_table, log, modal, event, n_actions, frame>>

provider_vars == <<acct_domains, records, next_id>>
update_vars == <<checks, update_thread>>
view_vars == <<domain_combo, records_table>>
worker_vars == <<workers, orphans, dns_client, worker_thread>>

\* the places for thread objects
OpIds == 1..MaxOps

\* no function is being called on its own
NoFrame == [fn |-> "", args |-> <<>>, about |-> <<>>, pc |-> "idle", ret |-> <<>>]

NoClient == [built |-> FALSE, key |-> NoKey]
Client(key) == [built |-> TRUE, key |-> key]

\* a WorkerThread: its func's captured values, where it is, what it holds,
\* the requests it has issued (calls) and how many of its outcomes the log
\* has shown (logged)
NoWorker ==
    [kind |-> "none", state |-> "none", pc |-> "none", key |-> NoKey,
     main_domain |-> "", sub_domain |-> "", ip_address |-> <<>>,
     record_type |-> "", record_id |-> 0, status |-> "", domain |-> "",
     domains |-> <<>>, fetched |-> <<>>, result |-> M(""), killed_by |-> "",
     calls |-> <<>>, logged |-> 0]

\* a variant of FirstCall: set_record_func starts with its mutation
FirstCallMutation(kind) ==
    CASE kind = "domains" -> "domains"
      [] kind = "records" -> "list"
      [] OTHER -> "mutate"

\* the call a func makes first
FirstCall(kind) ==
    CASE kind = "domains" -> "domains"
      [] kind = "records" -> "list"
      [] kind = "set" -> "find"
      [] OTHER -> "mutate"

Worker(kind, key) ==
    [NoWorker EXCEPT !.kind = kind, !.state = "running", !.pc = FirstCall(kind),
                     !.key = key]

\* no user action; the user action `action`
NoEvent == [action |-> "", ip |-> <<>>, warning |-> ""]
Did(action) == [NoEvent EXCEPT !.action = action]

NoModal == [open |-> FALSE, record_id |-> 0, domain |-> "", stage |-> 0]

\* QThread.isRunning()
IsRunning(ws, w) == w # 0 /\ ws[w].state = "running"

\* domain_combo.currentText()
CurrentText(combo) == IF combo.index = 0 THEN "" ELSE combo.items[combo.index]

\* log(message, is_success), lines 896-911: the entry appended; op is the
\* thread the message is about (0: none), kept beside the text
LogLine(message, is_success, op) ==
    [message |-> message, is_success |-> is_success, op |-> op]

(***************************************************************************)
(* Requests.  A request is written to its worker's calls when issued.      *)
(***************************************************************************)
Req(op, api, key) ==
    [op |-> op, api |-> api, key |-> key, domain |-> "", rr |-> "",
     type |-> "", value |-> <<>>, id |-> 0, status |-> "",
     returned |-> "none", fault |-> FALSE, found |-> 0, resp |-> <<>>]

\* update_record lines 173-178, add_record lines 187-192,
\* set_record_status lines 201-204, delete_record lines 213-215
UpdateRequest(op, key, record_id, sub_domain, ip_address, record_type) ==
    [Req(op, "UpdateDomainRecord", key) EXCEPT !.id = record_id, !.rr = sub_domain,
        !.type = record_type, !.value = ip_address]

AddRequest(op, key, main_domain, sub_domain, ip_address, record_type) ==
    [Req(op, "AddDomainRecord", key) EXCEPT !.domain = main_domain, !.rr = sub_domain,
        !.type = record_type, !.value = ip_address]

\* a variant of StatusRequest: the id is computed, not the one it is given
StatusRequestGuessed(op, key, record_id, status) ==
    [Req(op, "SetDomainRecordStatus", key) EXCEPT !.id = record_id + 1,
                                                  !.status = status]

StatusRequest(op, key, record_id, status) ==
    [Req(op, "SetDomainRecordStatus", key) EXCEPT !.id = record_id, !.status = status]

DeleteRequest(op, key, record_id) ==
    [Req(op, "DeleteDomainRecord", key) EXCEPT !.id = record_id]

\* variants of ReconcileRequest: always add; always update
ReconcileAlwaysAdd(op, key, w) ==
    AddRequest(op, key, w.main_domain, w.sub_domain, w.ip_address, w.record_type)

ReconcileAlwaysUpdate(op, key, w) ==
    UpdateRequest(op, key, w.record_id, w.sub_domain, w.ip_address, w.record_type)

\* set_record_func lines 1208-1213: update the record found, else add one
ReconcileRequest(op, key, w) ==
    IF w.record_id # 0
    THEN UpdateRequest(op, key, w.record_id, w.sub_domain, w.ip_address, w.record_type)
    ELSE AddRequest(op, key, w.main_domain, w.sub_domain, w.ip_address, w.record_type)

\* the mutation a worker makes: set_record_func 1208-1213, toggle_func 1104,
\* delete_func 1150
MutationRequest(op, key, w) ==
    CASE w.kind = "set" -> ReconcileRequest(op, key, w)
      [] w.kind = "toggle" -> StatusRequest(op, key, w.record_id, w.status)
      [] OTHER -> DeleteRequest(op, key, w.record_id)

Mutations == {"UpdateDomainRecord", "AddDomainRecord", "SetDomainRecordStatus",
              "DeleteDomainRecord"}

\* the provider refuses a request signed with an empty key, and one that
\* names a record it does not hold or no domain
Acceptable(recs, req) ==
    /\ Complete(req.key)
    /\ req.api \in {"UpdateDomainRecord", "SetDomainRecordStatus", "DeleteDomainRecord"}
          => HasRecord(recs, req.id)
    /\ req.api \in {"DescribeDomainRecords", "AddDomainRecord"} => req.domain # ""

\* the provider's records after it served the request
Applied(recs, id, req) ==
    CASE req.api = "UpdateDomainRecord" ->
            UpdateDomainRecord(recs, req.id, req.rr, req.type, req.value)
      [] req.api = "AddDomainRecord" ->
            AddDomainRecord(recs, id, req.domain, req.rr, req.type, req.value)
      [] req.api = "SetDomainRecordStatus" ->
            SetDomainRecordStatus(recs, req.id, req.status)
      [] req.api = "DeleteDomainRecord" -> DeleteDomainRecord(recs, req.id)
      [] OTHER -> recs

NextIdAfter(id, req) == IF req.api = "AddDomainRecord" THEN id + 1 ELSE id

\* the client a func uses: _fetch_domains builds one (line 941), the others
\* build one only if there is none (975-976, 1101-1102, 1147-1148, 1203-1204)
ClientFor(w, client) ==
    IF w.kind = "domains" \/ ~client.built THEN Client(w.key) ELSE client

\* the worker record with one more request issued
Called(w, call) == [w EXCEPT !.calls = Append(@, call)]

(***************************************************************************)
(* safe_terminate_thread, lines 435-438, on the handle worker_thread.      *)
(* terminate() stops the thread wherever it is; a thread stopped at its    *)
(* mutation call may or may not have sent the request (sent).              *)
(***************************************************************************)
SentChoices ==
    IF IsRunning(workers, worker_thread) /\ workers[worker_thread].pc = "mutate"
    THEN BOOLEAN ELSE {FALSE}

\* what is left of a thread object once it has ended: what it was for and
\* what it has done
Ended(w, state, by) ==
    [w EXCEPT !.state = state, !.pc = "none", !.killed_by = by,
              !.domains = <<>>, !.fetched = <<>>, !.result = M("")]

\* a variant of safe_terminate_thread: the thread is left running
NotTerminated(ws, w, by) == ws

safe_terminate_thread(ws, w, by) ==
    IF IsRunning(ws, w)
    THEN [ws EXCEPT ![w].state = "terminated", ![w].killed_by = by]
    ELSE ws

SentClient == ClientFor(workers[worker_thread], dns_client)
SentRequest == MutationRequest(worker_thread, SentClient.key, workers[worker_thread])

\* the worker records after the handle's thread was terminated
Superseded(by, sent) ==
    LET ws == safe_terminate_thread(workers, worker_thread, by)
    IN  IF IsRunning(workers, worker_thread) /\ ws[worker_thread].state = "terminated"
        THEN [ws EXCEPT ![worker_thread] =
                 Ended(IF sent THEN Called(@, SentRequest) ELSE @, "terminated", by)]
        ELSE ws

\* what the terminated thread leaves behind
Leftover(sent) ==
    /\ orphans' = IF sent THEN orphans \cup {SentRequest} ELSE orphans
    /\ dns_client' = IF sent THEN SentClient ELSE dns_client

\* a signal of the thread is still to be handled, or a request of it is
\* still on its way
Pending(thread, w) ==
    \/ \E i \in 1..Len(queue) : queue[i].thread = thread /\ queue[i].op = w
    \/ thread = "worker" /\ \E o \in orphans : o.op = w

\* a thread object nothing refers to any more: it has ended, the handle
\* has been given another object since, and nothing of it is pending
Released(thread, ts, handle, w) ==
    /\ ts[w].state \in {"finished", "terminated"}
    /\ w # handle
    /\ ~Pending(thread, w)

Free(thread, ts, handle, w) == ts[w].state = "none" \/ Released(thread, ts, handle, w)

HasFree(thread, ts, handle) == \E w \in OpIds : Free(thread, ts, handle, w)

\* the place of a new thread object
Place(thread, ts, handle) ==
    CHOOSE w \in OpIds : /\ Free(thread, ts, handle, w)
                         /\ \A v \in 1..(w - 1) : ~Free(thread, ts, handle, v)

\* the thread objects after the handle is given the new object `rec`
Replaced(thread, ts, handle, after, none, rec) ==
    [w \in OpIds |->
        IF w = Place(thread, ts, handle) THEN rec
        ELSE IF Released(thread, ts, handle, w) THEN none
        ELSE after[w]]

\* the UI thread replaces the worker: terminate the old one, start `rec`
Launch(rec, by, sent) ==
    /\ HasFree("worker", workers, worker_thread)
    /\ workers' = Replaced("worker", workers, worker_thread, Superseded(by, sent),
                           NoWorker, rec)
    /\ Leftover(sent)
    /\ worker_thread' = Place("worker", workers, worker_thread)

\* the UI thread terminates the worker and starts none
JustTerminate(by, sent) ==
    /\ workers' = Superseded(by, sent)
    /\ Leftover(sent)
    /\ UNCHANGED worker_thread

(***************************************************************************)
(* The UI thread: the user's actions.                                      *)
(***************************************************************************)
UserActs ==
    /\ ~modal.open
    /\ n_actions < MaxActions
    /\ n_actions' = n_actions + 1

\* refresh_domains, lines 913-938, with cfg the configuration read from
\* the file
refresh_domains(cfg) ==
    \E sent \in SentChoices :
        IF ~Complete(cfg)
        THEN /\ JustTerminate("user", sent)
             /\ event' = [Did("refresh_domains") EXCEPT !.warning = "config incomplete"]
             /\ UNCHANGED <<view_vars, log>>
        ELSE /\ Launch(Worker("domains", cfg), "user", sent)
             /\ log' = LogLine(M("refreshing domain list"), TRUE, 0)
             /\ domain_combo' = [items |-> <<>>, index |-> 0]
             /\ UNCHANGED records_table
             /\ event' = Did("refresh_domains")

\* the refresh button, line 636
RefreshDomains ==
    /\ UserActs
    /\ refresh_domains(config)
    /\ UNCHANGED <<config, provider_vars, rendered_ids, update_vars, queue, modal>>

\* ConfigDialog.save_config, lines 371-386, then auto_load_domains, 856-869
SaveConfig(c) ==
    /\ UserActs
    /\ config' = c
    /\ IF Complete(c)
       THEN refresh_domains(c)
       ELSE /\ log' = LogLine(M("please set AccessKey"), FALSE, 0)
            /\ UNCHANGED <<worker_vars, view_vars>>
            /\ event' = Did("save_config")
    /\ UNCHANGED <<provider_vars, rendered_ids, update_vars, queue, modal>>

\* on_domain_changed, lines 954-987, for an index >= 0; combo is the
\* selector as it is when the slot runs
on_domain_changed(combo, by) ==
    \E sent \in SentChoices :
        /\ Launch([Worker("records", config) EXCEPT !.main_domain = CurrentText(combo)],
                  by, sent)
        /\ log' = LogLine([M("loading records") EXCEPT !.main = CurrentText(combo)],
                          TRUE, 0)
        /\ records_table' = <<>>
        /\ domain_combo' = combo

\* the user picks another domain: currentIndexChanged, line 631
SelectDomain(i) ==
    /\ UserActs
    /\ i \in 1..Len(domain_combo.items)
    /\ i # domain_combo.index
    /\ on_domain_changed([domain_combo EXCEPT !.index = i], "user")
    /\ UNCHANGED <<config, provider_vars, rendered_ids, update_vars, queue, modal>>
    /\ event' = Did("on_domain_changed")

\* set_dns_record, lines 1174-1224
set_dns_record(sub_text, ip_address) ==
    LET main_domain == CurrentText(domain_combo)
        sub_domain == IF sub_text = "" THEN "@" ELSE sub_text
        record_type == RecordType(ip_address)
        did == [Did("set_dns_record") EXCEPT !.ip = ip_address]
    IN  IF main_domain = ""
        THEN /\ event' = [did EXCEPT !.warning = "select a domain"]
             /\ UNCHANGED <<worker_vars, log>>
        ELSE IF ip_address = <<>>
        THEN /\ event' = [did EXCEPT !.warning = "enter an IP address"]
             /\ UNCHANGED <<worker_vars, log>>
        ELSE IF record_type = "None"
        THEN /\ event' = [did EXCEPT !.warning = "enter a valid IPv4 or IPv6 address"]
             /\ UNCHANGED <<worker_vars, log>>
        ELSE \E sent \in SentChoices :
                /\ Launch([Worker("set", config) EXCEPT
                              !.main_domain = main_domain, !.sub_domain = sub_domain,
                              !.ip_address = ip_address, !.record_type = record_type],
                          "user", sent)
                /\ log' = LogLine([M("setting record") EXCEPT
                                      !.sub = sub_domain, !.main = main_domain],
                                  TRUE, 0)
                /\ event' = did

SetDnsRecord(sub_text, ip_address) ==
    /\ UserActs
    /\ set_dns_record(sub_text, ip_address)
    /\ UNCHANGED <<config, provider_vars, rendered_ids, update_vars, queue, view_vars,
                   modal>>

\* the button update_records_table puts in a row, lines 1023-1058
ButtonStatus(row) == IF row.status = "ENABLE" THEN "disable" ELSE "ENABLE"

\* toggle_record_status, lines 1087-1115
toggle_record_status(record_id, status) ==
    \E sent \in SentChoices :
        /\ Launch([Worker("toggle", config) EXCEPT
                      !.record_id = record_id, !.status = status],
                  "user", sent)
        /\ log' = LogLine([M("changing record status") EXCEPT !.detail = status],
                          TRUE, 0)

ToggleClick(r) ==
    /\ UserActs
    /\ r \in 1..Len(records_table)
    /\ toggle_record_status(records_table[r].record_id, ButtonStatus(records_table[r]))
    /\ UNCHANGED <<config, provider_vars, rendered_ids, update_vars, queue, view_vars,
                   modal>>
    /\ event' = Did("toggle_record_status")

\* a variant of DeleteClick: the first question is skipped
DeleteClickSecond(r) ==
    /\ UserActs
    /\ r \in 1..Len(records_table)
    /\ modal' = [open |-> TRUE, record_id |-> records_table[r].record_id,
                 domain |-> records_table[r].full_domain, stage |-> 2]
    /\ UNCHANGED <<config, provider_vars, rendered_ids, update_vars, queue, view_vars,
                   worker_vars, log>>
    /\ event' = Did("delete_record")

\* delete_record, lines 1117-1125: the first question opens
DeleteClick(r) ==
    /\ UserActs
    /\ r \in 1..Len(records_table)
    /\ modal' = [open |-> TRUE, record_id |-> records_table[r].record_id,
                 domain |-> records_table[r].full_domain, stage |-> 1]
    /\ UNCHANGED <<config, provider_vars, rendered_ids, update_vars, queue, view_vars,
                   worker_vars, log>>
    /\ event' = Did("delete_record")

\* delete_record, lines 1124-1161: the user answers the open question
AnswerDelete(yes) ==
    /\ modal.open
    /\ IF ~yes
       THEN modal' = NoModal /\ UNCHANGED <<worker_vars, log>>
       ELSE IF modal.stage = 1
       THEN modal' = [modal EXCEPT !.stage = 2] /\ UNCHANGED <<worker_vars, log>>
       ELSE \E sent \in SentChoices :
               /\ Launch([Worker("delete", config) EXCEPT
                             !.record_id = modal.record_id, !.domain = modal.domain],
                         "user", sent)
               /\ log' = LogLine([M("deleting record") EXCEPT !.main = modal.domain],
                                 TRUE, 0)
               /\ modal' = NoModal
    /\ UNCHANGED <<config, provider_vars, rendered_ids, update_vars, queue, view_vars,
                   n_actions>>
    /\ event' = Did("delete_record")

(***************************************************************************)
(* Worker threads: WorkerThread.run, lines 93-98, around the func of the   *)
(* action.  One step is one request with its answer and what the func does *)
(* with it up to its next request: the client is built with the func's     *)
(* first request, a list is emitted with the request that fetched it, a    *)
(* failure is emitted with the request that failed.                        *)
(***************************************************************************)
Sig(thread, sig, op) ==
    [thread |-> thread, sig |-> sig, op |-> op, domains |-> <<>>, records |-> <<>>,
     message |-> M(""), success |-> TRUE]

\* the f-string a client method raises with, lines 124, 141, 169, 183, 197,
\* 209, 220
FailureText(api) ==
    CASE api = "DescribeDomains" -> "get domains failed"
      [] api = "DescribeSubDomainRecords" -> "query record failed"
      [] api = "DescribeDomainRecords" -> "get records failed"
      [] api = "UpdateDomainRecord" -> "update record failed"
      [] api = "AddDomainRecord" -> "add record failed"
      [] api = "SetDomainRecordStatus" -> "set status failed"
      [] OTHER -> "delete record failed"

\* WorkerThread.run line 98 on the exception of a client method
FailureMessage(api) ==
    [M("operation failed") EXCEPT !.detail = FailureText(api) \o ": " \o ProviderDetail]

\* the string the func returns: lines 946-948, 980, 1210/1213, 1108, 1154
ResultMessage(w) ==
    CASE w.kind = "domains" ->
            IF w.domains = <<>> THEN M("no domains found")
            ELSE [M("loaded domains") EXCEPT !.n = Len(w.domains)]
      [] w.kind = "records" ->
            [M("loaded records") EXCEPT !.main = w.main_domain, !.n = Len(w.fetched)]
      [] w.kind = "set" -> w.result
      [] w.kind = "toggle" ->
            [M("record status changed") EXCEPT
                !.detail = IF w.status = "disable" THEN "pause" ELSE "enable"]
      [] OTHER -> [M("record deleted") EXCEPT !.main = w.domain]

\* set_record_func lines 1210 and 1213
ReconcileResult(w) ==
    [M(IF w.record_id # 0 THEN "updated" ELSE "added") EXCEPT
        !.sub = w.sub_domain, !.main = w.main_domain, !.type = w.record_type,
        !.ip = w.ip_address]

\* whether the provider answers: it may fail any request, and fails the
\* ones it cannot accept
Answers(req) == IF Acceptable(records, req) THEN BOOLEAN ELSE {FALSE}

\* the thread object once run() has emitted `message` and ended
Emitted(w, message) == [Ended(w, "finished", "") EXCEPT !.result = message]

\* the request as the worker's calls keep it once it has raised
Failed(req) == [req EXCEPT !.returned = "error", !.fault = Acceptable(records, req)]

\* a variant of Raised: the request is tried again before the failure is
\* emitted
RaisedTwice(w, req) ==
    /\ workers' = [workers EXCEPT
                      ![w] = Emitted(Called(Called(workers[w], Failed(req)), Failed(req)),
                                     FailureMessage(req.api))]
    /\ queue' = Append(queue, [Sig("worker", "finished", w) EXCEPT
                                  !.message = FailureMessage(req.api),
                                  !.success = FALSE])

\* a variant of Raised: the records are listed and emitted all the same
\* before the failure is
RaisedAndListed(w, req) ==
    /\ workers' = [workers EXCEPT
                      ![w] = Emitted(Called(Called(workers[w], Failed(req)),
                                            [Req(w, "DescribeDomainRecords", req.key)
                                                EXCEPT !.returned = "ok"]),
                                     FailureMessage(req.api))]
    /\ queue' = Append(Append(queue,
                              [Sig("worker", "records", worker_thread) EXCEPT
                                  !.records = get_domain_records(records,
                                                  CurrentText(domain_combo))]),
                       [Sig("worker", "finished", w) EXCEPT
                           !.message = FailureMessage(req.api), !.success = FALSE])

\* the worker's request raised: run() emits the failure, line 98, and ends
Raised(w, req) ==
    /\ workers' = [workers EXCEPT
                      ![w] = Emitted(Called(workers[w], Failed(req)),
                                     FailureMessage(req.api))]
    /\ queue' = Append(queue, [Sig("worker", "finished", w) EXCEPT
                                  !.message = FailureMessage(req.api),
                                  !.success = FALSE])

\* _fetch_domains lines 941-944
GetDomains(w) ==
    /\ workers[w].pc = "domains"
    /\ dns_client' = ClientFor(workers[w], dns_client)
    /\ LET req == Req(w, "DescribeDomains", dns_client'.key)
       IN  \E ok \in Answers(req) :
              IF ok
              THEN /\ workers' = [workers EXCEPT
                         ![w] = [Called(@, [req EXCEPT !.returned = "ok"]) EXCEPT
                                    !.domains = acct_domains, !.pc = "return"]]
                   /\ queue' = Append(queue, [Sig("worker", "domain", worker_thread)
                                                 EXCEPT !.domains = acct_domains])
              ELSE Raised(w, req)
    /\ UNCHANGED <<config, provider_vars, orphans, rendered_ids, worker_thread,
                   update_vars, view_vars, log, modal, n_actions>>
    /\ event' = NoEvent

\* set_record_func lines 1203-1206
FindRecord(w) ==
    /\ workers[w].pc = "find"
    /\ dns_client' = ClientFor(workers[w], dns_client)
    /\ LET me == workers[w]
           req == [Req(w, "DescribeSubDomainRecords", dns_client'.key) EXCEPT
                      !.domain = FullDomain(me.sub_domain, me.main_domain),
                      !.type = me.record_type]
           id == get_record_id(records, me.main_domain, me.sub_domain, me.record_type)
       IN  \E ok \in Answers(req) :
              IF ok
              THEN /\ workers' = [workers EXCEPT
                         ![w] = [Called(@, [req EXCEPT !.returned = "ok", !.found = id])
                                    EXCEPT !.record_id = id, !.pc = "mutate"]]
                   /\ UNCHANGED queue
              ELSE Raised(w, req)
    /\ UNCHANGED <<config, provider_vars, orphans, rendered_ids, worker_thread,
                   update_vars, view_vars, log, modal, n_actions>>
    /\ event' = NoEvent

\* what the func does after its mutation: it lists the records
\* (1215, 1105-1106, 1151-1152)
AfterMutate(kind) == "list"

\* the RecordId in the provider's answer to a mutation, which the client
\* method returns (181, 195, 207, 218): the id of the record created, or
\* the id the request named
ResponseRecordId(id, req) == IF req.api = "AddDomainRecord" THEN id ELSE req.id

\* set_record_func lines 1208-1213, toggle_func 1101-1104, delete_func 1147-1150
Mutate(w) ==
    /\ workers[w].pc = "mutate"
    /\ dns_client' = ClientFor(workers[w], dns_client)
    /\ LET me == workers[w]
           req == MutationRequest(w, dns_client'.key, me)
       IN  \E ok \in Answers(req) :
              IF ok
              THEN /\ records' = Applied(records, next_id, req)
                   /\ next_id' = NextIdAfter(next_id, req)
                   /\ workers' = [workers EXCEPT
                         ![w] = [Called(@, [req EXCEPT !.returned = "ok",
                                      !.found = ResponseRecordId(next_id, req)]) EXCEPT
                                    !.result = IF me.kind = "set" THEN ReconcileResult(me)
                                               ELSE me.result,
                                    !.pc = AfterMutate(me.kind)]]
                   /\ UNCHANGED queue
              ELSE Raised(w, req) /\ UNCHANGED <<records, next_id>>
    /\ UNCHANGED <<config, acct_domains, orphans, rendered_ids, worker_thread,
                   update_vars, view_vars, log, modal, n_actions>>
    /\ event' = NoEvent

\* the domain a func lists: its captured main_domain (978, 1215), or the
\* selector's text read by the worker after its mutation (1105, 1151)
ListedDomain(w) ==
    IF w.kind \in {"toggle", "delete"} THEN CurrentText(domain_combo) ELSE w.main_domain

\* a variant of EmittedList: the table as it is, not the list fetched
PatchedList(table, got) == table

\* what a func emits as its record list: the list it has just fetched
\* (979, 1107, 1153, 1216)
EmittedList(table, got) == got

\* fetch_records_func 975-979, set_record_func 1215-1216, toggle_func
\* 1105-1107, delete_func 1151-1153
ListRecords(w) ==
    /\ workers[w].pc = "list"
    /\ dns_client' = ClientFor(workers[w], dns_client)
    /\ LET me == workers[w]
           main_domain == ListedDomain(me)
           req == [Req(w, "DescribeDomainRecords", dns_client'.key) EXCEPT
                      !.domain = main_domain]
           got == get_domain_records(records, main_domain)
       IN  \E ok \in Answers(req) :
              IF ok
              THEN /\ workers' = [workers EXCEPT
                         ![w] = [Called(@, [req EXCEPT !.returned = "ok", !.resp = got])
                                    EXCEPT !.fetched = got, !.pc = "return"]]
                   /\ queue' = Append(queue, [Sig("worker", "records", worker_thread)
                                      EXCEPT !.records = EmittedList(records_table, got)])
              ELSE Raised(w, req)
    /\ UNCHANGED <<config, provider_vars, orphans, rendered_ids, worker_thread,
                   update_vars, view_vars, log, modal, n_actions>>
    /\ event' = NoEvent

\* the func returns and run() emits signal(result, True), lines 95-96
Return(w) ==
    /\ workers[w].pc = "return"
    /\ queue' = Append(queue, [Sig("worker", "finished", w) EXCEPT
                                  !.message = ResultMessage(workers[w])])
    /\ workers' = [workers EXCEPT ![w] = Emitted(workers[w], ResultMessage(workers[w]))]
    /\ UNCHANGED <<config, dns_client, provider_vars, orphans, rendered_ids,
                   worker_thread, update_vars, view_vars, log, modal, n_actions>>
    /\ event' = NoEvent

WorkerStep(w) ==
    /\ workers[w].state = "running"
    /\ \/ GetDomains(w)
       \/ FindRecord(w)
       \/ Mutate(w)
       \/ ListRecords(w)
       \/ Return(w)

(***************************************************************************)
(* Requests of terminated workers that were already on their way.          *)
(***************************************************************************)
OrphanServed(o) ==
    /\ o \in orphans
    /\ Acceptable(records, o)
    /\ orphans' = orphans \ {o}
    /\ records' = Applied(records, next_id, o)
    /\ next_id' = NextIdAfter(next_id, o)
    /\ UNCHANGED <<config, dns_client, acct_domains, rendered_ids, workers,
                   worker_thread, update_vars, queue, view_vars, log, modal, n_actions>>
    /\ event' = NoEvent

OrphanLost(o) ==
    /\ o \in orphans
    /\ orphans' = orphans \ {o}
    /\ UNCHANGED <<config, dns_client, provider_vars, rendered_ids, workers,
                   worker_thread, update_vars, queue, view_vars, log, modal, n_actions>>
    /\ event' = NoEvent

(***************************************************************************)
(* The update check.                                                       *)
(***************************************************************************)
\* an UpdateCheckThread, and how many of its outcomes the log has shown
NoCheck == [state |-> "none", killed_by |-> "", logged |-> 0]
RunningCheck == [state |-> "running", killed_by |-> "", logged |-> 0]

\* check_for_updates, lines 1231-1237, from the button of line 508
CheckForUpdates ==
    /\ UserActs
    /\ HasFree("check", checks, update_thread)
    /\ checks' = Replaced("check", checks, update_thread,
                          safe_terminate_thread(checks, update_thread, "user"),
                          NoCheck, RunningCheck)
    /\ update_thread' = Place("check", checks, update_thread)
    /\ UNCHANGED <<config, provider_vars, rendered_ids, worker_vars, queue, view_vars,
                   log, modal>>
    /\ event' = Did("check_for_updates")

FetchFailures == {"bad status", "timeout", "network error"}

\* UpdateCheckThread.run, lines 44-68: the signal it ends with
CheckOutcome(u, fetched) ==
    IF fetched \in FetchFailures
    THEN [Sig("check", "check_failed", u) EXCEPT
             !.message = [M(fetched) EXCEPT !.detail = fetched], !.success = FALSE]
    ELSE IF ~VersionMatch(fetched)
    THEN [Sig("check", "check_failed", u) EXCEPT
             !.message = [M("invalid version format") EXCEPT !.version = fetched],
             !.success = FALSE]
    ELSE IF is_new_version(fetched, CURRENT_VERSION)
    THEN [Sig("check", "update_available", u) EXCEPT
             !.message = [M("new version found") EXCEPT !.version = fetched]]
    ELSE [Sig("check", "no_update", u) EXCEPT !.message = M("already the latest version")]

UpdateCheckRun(u, fetched) ==
    /\ checks[u].state = "running"
    /\ checks' = [checks EXCEPT ![u].state = "finished"]
    /\ queue' = Append(queue, CheckOutcome(u, fetched))
    /\ UNCHANGED <<config, provider_vars, rendered_ids, worker_vars,
                   update_thread, view_vars, log, modal, n_actions>>
    /\ event' = NoEvent

(***************************************************************************)
(* The UI thread handles the next queued signal.                           *)
(***************************************************************************)
\* update_domain_combo, lines 950-952: clear(), then addItems selects the
\* first item and currentIndexChanged runs on_domain_changed
update_domain_combo(domains) ==
    /\ IF domains = <<>>
       THEN /\ domain_combo' = [items |-> <<>>, index |-> 0]
            /\ UNCHANGED <<worker_vars, records_table, log>>
       ELSE on_domain_changed([items |-> domains, index |-> 1], "auto")
    /\ UNCHANGED rendered_ids

\* the record ids of the rows of a table
RowIds(rows) == {rows[i].record_id : i \in 1..Len(rows)}

\* update_records_table, lines 989-1085
update_records_table(recs) ==
    /\ records_table' = recs
    /\ rendered_ids' = rendered_ids \cup RowIds(recs)
    /\ UNCHANGED <<worker_vars, domain_combo, log>>

\* the text the slot of a signal logs: on_worker_finished 1163-1164,
\* on_update_available 1239-1240, on_no_update 1250-1252,
\* on_update_check_failed 1254-1255
LoggedText(m) ==
    IF m.sig = "check_failed"
    THEN [M("update check failed") EXCEPT
             !.detail = m.message.tag, !.version = m.message.version]
    ELSE m.message

\* the thread object with one more outcome in the log
Logged(ts, w) == [ts EXCEPT ![w].logged = @ + 1]

Deliver ==
    /\ queue # <<>>
    /\ queue' = Tail(queue)
    /\ LET m == Head(queue)
       IN  CASE m.sig = "domain" ->
                   update_domain_combo(m.domains) /\ UNCHANGED checks
             [] m.sig = "records" ->
                   update_records_table(m.records) /\ UNCHANGED checks
             [] m.sig = "finished" ->
                   /\ log' = LogLine(LoggedText(m), m.success, m.op)
                   /\ workers' = Logged(workers, m.op)
                   /\ UNCHANGED <<orphans, dns_client, worker_thread, view_vars, checks,
                                  rendered_ids>>
             [] OTHER ->
                   /\ log' = LogLine(LoggedText(m), m.success, m.op)
                   /\ checks' = Logged(checks, m.op)
                   /\ UNCHANGED <<worker_vars, view_vars, rendered_ids>>
    /\ UNCHANGED <<config, provider_vars, update_thread, modal, n_actions>>
    /\ event' = NoEvent

(***************************************************************************)
(* The window as __init__ leaves it, lines 426-433: the configuration is   *)
(* read, auto_load_domains starts a domain refresh when it is complete,    *)
(* and the first update check runs.                                        *)
(***************************************************************************)
Opened(lists) ==
    /\ config \in {NoKey, Key1}
    /\ dns_client = NoClient
    /\ acct_domains \in DomainLists
    /\ records \in IF acct_domains = <<>> THEN {<<>>} ELSE lists
    /\ next_id = Len(records) + 1
    /\ orphans = {}
    /\ rendered_ids = {}
    /\ workers = IF Complete(config)
                 THEN [w \in OpIds |-> IF w = 1 THEN Worker("domains", config)
                                       ELSE NoWorker]
                 ELSE [w \in OpIds |-> NoWorker]
    /\ worker_thread = IF Complete(config) THEN 1 ELSE 0
    /\ checks = [u \in OpIds |-> IF u = 1 THEN RunningCheck ELSE NoCheck]
    /\ update_thread = 1
    /\ queue = <<>>
    /\ domain_combo = [items |-> <<>>, index |-> 0]
    /\ records_table = <<>>
    /\ log = IF Complete(config)
             THEN LogLine(M("refreshing domain list"), TRUE, 0)
             ELSE LogLine(M("please set AccessKey"), FALSE, 0)
    /\ modal = NoModal
    /\ event = NoEvent
    /\ n_actions = 0

\* the window opened on an account whose names have one record each
InitWindow == Opened(InitRecordLists)

\* the window as __init__ leaves it; no function is being called on its own
Init == InitWindow /\ frame = NoFrame

Next ==
    \/ RefreshDomains /\ UNCHANGED frame
    \/ \E c \in TypedConfigs : SaveConfig(c) /\ UNCHANGED frame
    \/ \E i \in 1..Len(domain_combo.items) : SelectDomain(i) /\ UNCHANGED frame
    \/ \E in \in UserInputs : SetDnsRecord(in[1], in[2]) /\ UNCHANGED frame
    \/ \E r \in 1..Len(records_table) : ToggleClick(r) /\ UNCHANGED frame
    \/ \E r \in 1..Len(records_table) : DeleteClick(r) /\ UNCHANGED frame
    \/ \E yes \in BOOLEAN : AnswerDelete(yes) /\ UNCHANGED frame
    \/ \E w \in OpIds : WorkerStep(w) /\ UNCHANGED frame
    \/ \E o \in orphans : OrphanServed(o) /\ UNCHANGED frame
    \/ \E o \in orphans : OrphanLost(o) /\ UNCHANGED frame
    \/ Deliver /\ UNCHANGED frame

\* the window and its workers, the update check left aside
Spec == Init /\ [][Next]_vars

NextAll ==
    \/ Next
    \/ CheckForUpdates /\ UNCHANGED frame
    \/ \E u \in OpIds, f \in FetchFailures \cup TagSamples :
          UpdateCheckRun(u, f) /\ UNCHANGED frame

\* the window, its workers and its update check
SpecAll == Init /\ [][NextAll]_vars

\* the window opened on an account where a name has several records of one
\* type, as DescribeSubDomainRecords may return them (line 138 takes the
\* first)
InitMany ==
    /\ Opened(ManyRecordLists)
    /\ config = Key1
    /\ acct_domains # <<>>
    /\ frame = NoFrame

\* the window and its workers on such an account
SpecMany == InitMany /\ [][Next]_vars

(***************************************************************************)
(* The program's functions called on their own: is_new_version (70-79),    *)
(* is_valid_ipv4 and is_valid_ipv6 (1166-1172), get_domain_records        *)
(* (143-169).                                                              *)
(* A frame holds the arguments as the function receives them (args), what  *)
(* they were built from (about), and what the call returned (ret).         *)
(***************************************************************************)
window_vars == <<config, dns_client, acct_domains, records, next_id, orphans,
                 rendered_ids, workers, worker_thread, checks, update_thread, queue,
                 domain_combo, records_table, log, modal, event, n_actions>>

Frame(fn, args, about) == [NoFrame EXCEPT !.fn = fn, !.args = args, !.about = about,
                                          !.pc = "call"]

\* the function returns
Returned(value) ==
    /\ frame.pc = "call"
    /\ frame' = [frame EXCEPT !.pc = "ret", !.ret = value]
    /\ UNCHANGED window_vars

\* decimal numerals, each with the number it denotes
Numerals == {<<0, <<"0">> >>, <<2, <<"2">> >>, <<9, <<"9">> >>, <<10, <<"1", "0">> >>,
             <<2, <<"0", "2">> >>}

\* the tag vA.B.C of three numerals, with the numbers it denotes
VersionOf(a, b, c) ==
    [text |-> <<"v">> \o a[2] \o <<".">> \o b[2] \o <<".">> \o c[2],
     numbers |-> <<a[1], b[1], c[1]>>]

Versions == {VersionOf(a, b, c) : a \in Numerals, b \in Numerals, c \in Numerals}

VersionFrames ==
    {Frame("is_new_version", <<l.text, c.text>>, <<l.numbers, c.numbers>>) :
        l \in Versions, c \in Versions}

CallIsNewVersion ==
    /\ frame.fn = "is_new_version"
    /\ Returned(is_new_version(frame.args[1], frame.args[2]))

\* the pieces joined with the separator between them
RECURSIVE Join(_, _)
Join(pieces, sep) ==
    IF pieces = <<>> THEN <<>>
    ELSE IF Len(pieces) = 1 THEN pieces[1]
    ELSE pieces[1] \o <<sep>> \o Join(Tail(pieces), sep)

\* what may stand before and after an address in the text handed over;
\* set_dns_record strips the text (line 1177), so that no whitespace begins
\* or ends it
Before == {<<>>, <<"x">>, <<"x", " ">>, <<".">>, <<":">>}
After == {<<>>, <<"x">>, <<" ", "x">>, <<"\n", "x">>, <<".">>, <<":">>}

\* segments of dotted texts: numerals up to 255, above 255, with leading
\* zeros, of four digits, empty, not a numeral
Segments == {<<"0">>, <<"2", "5">>, <<"2", "5", "5">>, <<"2", "5", "6">>,
             <<"3", "0", "0">>, <<"0", "0", "1">>, <<"0", "2", "5", "5">>, <<>>,
             <<"1", "a">>}
FewSegments == {<<"0">>, <<"2", "5", "5">>}

\* the texts is_valid_ipv4 is called on: four segments; three and five;
\* an address with something before or after it
Ipv4Texts ==
    {Join(<<a, b, c, d>>, ".") : a \in Segments, b \in Segments,
                                  c \in Segments, d \in Segments}
    \cup {Join(<<a, b, c>>, ".") : a \in FewSegments, b \in FewSegments,
                                    c \in FewSegments}
    \cup {Join(<<a, b, c, d, e>>, ".") : a \in FewSegments, b \in FewSegments,
                c \in FewSegments, d \in FewSegments, e \in FewSegments}
    \cup {p \o Ip4 \o q : p \in Before, q \in After}

Ipv4Frames == {Frame("is_valid_ipv4", <<t>>, <<>>) : t \in Ipv4Texts}

CallIsValidIpv4 ==
    /\ frame.fn = "is_valid_ipv4"
    /\ Returned(is_valid_ipv4(frame.args[1]))

\* groups of colon-separated texts: one to four hex digits in both cases,
\* five hex digits, not hex, empty
Groups == {<<"0">>, <<"f", "f", "f", "f">>, <<"A", "b", "C", "d">>,
           <<"1", "2", "3", "4", "5">>, <<"g">>, <<"1", "-">>, <<>>}

\* n groups, all a1 but the i-th and the j-th
GroupsWith(n, i, g, j, h) ==
    [k \in 1..n |-> IF k = i THEN g ELSE IF k = j THEN h ELSE <<"a", "1">>]

\* the texts is_valid_ipv6 is called on: eight groups, two of them varied;
\* seven and nine groups; an address with something before or after it;
\* forms with a double colon
Ipv6Texts ==
    {Join(GroupsWith(8, i, g, j, h), ":") : i \in 1..8, j \in 1..8,
                                              g \in Groups, h \in Groups}
    \cup {Join(GroupsWith(n, 1, g, 1, g), ":") : n \in {7, 9}, g \in Groups}
    \cup {p \o Ip6 \o q : p \in Before, q \in After}
    \cup {IpCompressed, <<"2", "0", "0", "1", ":", "d", "b", "8", ":", ":", "1">>}

Ipv6Frames == {Frame("is_valid_ipv6", <<t>>, <<>>) : t \in Ipv6Texts}

CallIsValidIpv6 ==
    /\ frame.fn = "is_valid_ipv6"
    /\ Returned(is_valid_ipv6(frame.args[1]))

\* records a provider may hold, with the ids 1..6
Pool ==
    <<Rec(1, D1, "www", "A", Ip4, "ENABLE"), Rec(2, D1, "@", "AAAA", Ip6, "DISABLE"),
      Rec(3, D1, "www", "CNAME", <<"x">>, "ENABLE"), Rec(4, D1, "@", "MX", <<"m">>, "ENABLE"),
      Rec(5, D2, "www", "A", Ip4Old, "ENABLE"), Rec(6, D1, "@", "A", Ip4Old, "ENABLE")>>

\* the provider's record lists get_domain_records is called against: up to
\* three records of the pool in any order
SmallRecordLists ==
    {<<>>}
    \cup {<<Pool[i]>> : i \in 1..6}
    \cup {<<Pool[p[1]], Pool[p[2]]>> :
              p \in {p \in (1..6) \X (1..6) : p[1] # p[2]}}
    \cup {<<Pool[p[1]], Pool[p[2]], Pool[p[3]]>> :
              p \in {p \in (1..6) \X (1..6) \X (1..6) :
                        p[1] # p[2] /\ p[1] # p[3] /\ p[2] # p[3]}}

\* a domain with more records than a page holds: PageSize CNAME records,
\* then one A record
LongRecordList ==
    [i \in 1..(PageSize + 1) |->
        IF i <= PageSize THEN Rec(i, D1, "www", "CNAME", <<"x">>, "ENABLE")
        ELSE Rec(i, D1, "@", "A", Ip4, "ENABLE")]

RecordsFrames ==
    {Frame("get_domain_records", <<recs, d>>, <<>>) :
        recs \in SmallRecordLists \cup {LongRecordList}, d \in {D1, D2}}

CallGetDomainRecords ==
    /\ frame.fn = "get_domain_records"
    /\ Returned(get_domain_records(frame.args[1], frame.args[2]))

Frames == VersionFrames \cup Ipv4Frames \cup Ipv6Frames \cup RecordsFrames

InitPure ==
    /\ InitWindow
    /\ config = NoKey
    /\ acct_domains = <<>>
    /\ frame \in Frames

NextPure ==
    \/ CallIsNewVersion
    \/ CallIsValidIpv4
    \/ CallIsValidIpv6
    \/ CallGetDomainRecords

\* the functions, each called once on arguments of its own
SpecPure == InitPure /\ [][NextPure]_vars
(***************************************************************************)
(* Properties.  What they read of a worker: the requests it has issued     *)
(* (calls), the message run() has emitted (result), the outcomes the log   *)
(* has shown for it (logged).                                              *)
(***************************************************************************)
Apis == Mutations \cup {"DescribeDomains", "DescribeSubDomainRecords",
                        "DescribeDomainRecords"}

CountApi(calls, api) == Cardinality({i \in 1..Len(calls) : calls[i].api = api})

AllOk(calls) == \A i \in 1..Len(calls) : calls[i].returned = "ok"

\* the answer to the find query among the calls: the record id found, 0 if
\* none was found, -1 if the query was not answered
FoundBy(calls) ==
    LET answered == {i \in 1..Len(calls) :
                        /\ calls[i].api = "DescribeSubDomainRecords"
                        /\ calls[i].returned = "ok"}
    IN  IF answered = {} THEN -1 ELSE calls[CHOOSE i \in answered : TRUE].found

\* the worker ran its func to the end and no request failed
Completed(w) == w.state = "finished" /\ w.calls # <<>> /\ AllOk(w.calls)

\* the worker is past its mutation
Mutated(w) ==
    \E i \in 1..Len(w.calls) : w.calls[i].api \in Mutations /\ w.calls[i].returned = "ok"

\* C1: a Reconcile (set_dns_record with a valid IP) whose find query returned
\* an existing record id R never issues a create, issues at most one update
\* and that update is UpdateRecord(R, rr, type, ip); once its mutation has
\* returned it has issued exactly one update, and when it runs to the end
\* with no request failing the message it reports says "updated" for that
\* (rr, domain, type, ip).
C1_UpdateWhenFound ==
    \A w \in OpIds :
        LET me == workers[w]
            R == FoundBy(me.calls)
        IN  (me.kind = "set" /\ R > 0) =>
              /\ CountApi(me.calls, "AddDomainRecord") = 0
              /\ CountApi(me.calls, "UpdateDomainRecord") <= 1
              /\ \A i \in 1..Len(me.calls) :
                    me.calls[i].api = "UpdateDomainRecord" =>
                        /\ me.calls[i].id = R
                        /\ me.calls[i].rr = me.sub_domain
                        /\ me.calls[i].type = me.record_type
                        /\ me.calls[i].value = me.ip_address
              /\ (Mutated(me) \/ Completed(me)) =>
                    CountApi(me.calls, "UpdateDomainRecord") = 1
              /\ Completed(me) =>
                    /\ me.result.tag = "updated"
                    /\ me.result.sub = me.sub_domain
                    /\ me.result.main = me.main_domain
                    /\ me.result.type = me.record_type
                    /\ me.result.ip = me.ip_address

\* a Reconcile found record 1, updated it and reported "updated"
C1_Updated ==
    \E w \in OpIds :
        /\ workers[w].kind = "set"
        /\ FoundBy(workers[w].calls) = 1
        /\ Completed(workers[w])
        /\ workers[w].result.tag = "updated"
        /\ \E i \in 1..Len(records) : /\ records[i].RecordId = 1
                                      /\ records[i].Value = Ip4

\* C2: a Reconcile (set_dns_record with a valid IP) whose find query found no
\* record never issues an update, issues at most one create and that create
\* is CreateRecord(mainDomain, rr, type, ip); once its mutation has returned
\* it has issued exactly one create, and when it runs to the end with no
\* request failing the message it reports says "added" for that (rr, domain,
\* type, ip).
C2_CreateWhenNoneFound ==
    \A w \in OpIds :
        LET me == workers[w]
        IN  (me.kind = "set" /\ FoundBy(me.calls) = 0) =>
              /\ CountApi(me.calls, "UpdateDomainRecord") = 0
              /\ CountApi(me.calls, "AddDomainRecord") <= 1
              /\ \A i \in 1..Len(me.calls) :
                    me.calls[i].api = "AddDomainRecord" =>
                        /\ me.calls[i].domain = me.main_domain
                        /\ me.calls[i].rr = me.sub_domain
                        /\ me.calls[i].type = me.record_type
                        /\ me.calls[i].value = me.ip_address
              /\ (Mutated(me) \/ Completed(me)) =>
                    CountApi(me.calls, "AddDomainRecord") = 1
              /\ Completed(me) =>
                    /\ me.result.tag = "added"
                    /\ me.result.sub = me.sub_domain
                    /\ me.result.main = me.main_domain
                    /\ me.result.type = me.record_type
                    /\ me.result.ip = me.ip_address

\* a Reconcile found no record, created one and reported "added"
C2_Added ==
    \E w \in OpIds :
        /\ workers[w].kind = "set"
        /\ FoundBy(workers[w].calls) = 0
        /\ Completed(workers[w])
        /\ workers[w].result.tag = "added"
        /\ \E i \in 1..Len(records) : /\ records[i].RR = "@"
                                      /\ records[i].Type = "AAAA"
                                      /\ records[i].Value = Ip6

\* two records of one address type under the same (domain, rr)
Duplicated(recs) ==
    \E i, j \in 1..Len(recs) :
        /\ i < j
        /\ recs[i].Type \in {"A", "AAAA"}
        /\ recs[i].Type = recs[j].Type
        /\ recs[i].DomainName = recs[j].DomainName
        /\ recs[i].RR = recs[j].RR

\* C3: starting from a provider with at most one record per (domain, rr,
\* type), after any sequence of Reconcile actions, a Reconcile started while
\* an earlier one was superseded with its create in flight included, the
\* provider holds at most one A and at most one AAAA record per (domain, rr).
C3_NoDuplicateRecords == ~Duplicated(records)

\* a Reconcile was terminated by the next one with its create on its way,
\* both creates were served, and the provider holds two records for the
\* same (domain, rr, type)
C3_DuplicateCreated ==
    /\ Duplicated(records)
    /\ \E w, v \in OpIds :
          /\ w # v
          /\ workers[w].kind = "set" /\ workers[w].state = "terminated"
          /\ workers[w].killed_by = "user"
          /\ CountApi(workers[w].calls, "AddDomainRecord") = 1
          /\ workers[v].kind = "set"
          /\ CountApi(workers[v].calls, "AddDomainRecord") = 1

\* the requests of a worker before its i-th
Earlier(calls, i) == SubSeq(calls, 1, i - 1)

\* the list the worker fetched after its mutation had returned, as a set of
\* at most one list
FreshLists(w) ==
    {w.calls[k].resp : k \in {k \in 1..Len(w.calls) :
        /\ w.calls[k].api = "DescribeDomainRecords"
        /\ w.calls[k].returned = "ok"
        /\ Mutated([w EXCEPT !.calls = Earlier(w.calls, k)])}}

\* the UI thread handles a record list
DeliversRecords == queue # <<>> /\ Head(queue).sig = "records" /\ queue' = Tail(queue)

\* C4: the record list a create, update, status change or delete sends to
\* the view is the answer to a ListRecords request the worker issued after
\* its mutation had returned, and the view shows the list it is sent as it
\* is: it is never a patched copy of the list shown before.
C4_ViewIsFreshList ==
    /\ [](\A i \in 1..Len(queue) :
            (queue[i].sig = "records"
                /\ workers[queue[i].op].kind \in {"set", "toggle", "delete"})
            => queue[i].records \in FreshLists(workers[queue[i].op]))
    /\ [][DeliversRecords => records_table' = Head(queue).records]_vars

\* the table shows the list a Reconcile fetched after its update, with the
\* new address in it
C4_FreshListShown ==
    \E w \in OpIds :
        /\ workers[w].kind = "set"
        /\ Completed(workers[w])
        /\ FoundBy(workers[w].calls) = 1
        /\ records_table \in FreshLists(workers[w])
        /\ \E r \in 1..Len(records_table) : records_table[r].value = Ip4

\* An IPv4 literal: four dot-separated decimal segments of one to three
\* digits, each in 0..255.
IsIPv4Literal(s) ==
    LET parts == Split(s, ".")
    IN  /\ Len(parts) = 4
        /\ \A i \in 1..4 : /\ Len(parts[i]) \in 1..3
                           /\ AllIn(parts[i], Digits)
                           /\ IntOf(parts[i]) <= 255

\* the groups of one side of "::" (none if the side is empty)
SideGroups(s) == IF s = <<>> THEN <<>> ELSE Split(s, ":")

\* An IPv6 literal: eight groups of one to four hex digits, or fewer with
\* one "::" standing for the groups left out.
IsIPv6Literal(s) ==
    \/ LET parts == Split(s, ":")
       IN  Len(parts) = 8 /\ \A i \in 1..8 : HextetMatch(parts[i])
    \/ \E k \in 1..(Len(s) - 1) :
          /\ s[k] = ":" /\ s[k + 1] = ":"
          /\ LET left == SideGroups(SubSeq(s, 1, k - 1))
                 right == SideGroups(SubSeq(s, k + 2, Len(s)))
             IN  /\ Len(left) + Len(right) <= 7
                 /\ \A i \in 1..Len(left) : HextetMatch(left[i])
                 /\ \A i \in 1..Len(right) : HextetMatch(right[i])

\* the texts that reach set_dns_record as the IP text or are held by the
\* provider as a value, and the literals among them
Texts == {in[2] : in \in UserInputs} \cup {Ip4Old}
IPv4Literals == {s \in Texts : IsIPv4Literal(s)}
IPv6Literals == {s \in Texts : IsIPv6Literal(s)}

AddressWarnings == {"enter an IP address", "enter a valid IPv4 or IPv6 address"}

\* C5: when the IP text is neither an IPv4 nor an IPv6 literal,
\* set_dns_record ends with a warning box, which with a domain selected is
\* the one about the address; it starts no worker, terminates none, and no
\* request is issued.
C5_InvalidAddressRejected ==
    [][(/\ event'.action = "set_dns_record"
        /\ event'.ip \in Texts \ (IPv4Literals \cup IPv6Literals))
       => /\ UNCHANGED <<workers, worker_thread, orphans, dns_client, queue,
                         records, log>>
          /\ event'.warning # ""
          /\ CurrentText(domain_combo) # "" => event'.warning \in AddressWarnings]_vars

\* set_dns_record has refused 256.0.0.1 with the warning about the address,
\* and the worker that was running still is
C5_Refused ==
    /\ event.action = "set_dns_record"
    /\ event.ip = IpOver
    /\ event.warning = "enter a valid IPv4 or IPv6 address"
    /\ IsRunning(workers, worker_thread)

\* the create and update requests issued so far, the ones on their way
\* included
ReconcileCalls ==
    {c \in UNION {{workers[w].calls[i] : i \in 1..Len(workers[w].calls)} : w \in OpIds}
            \cup orphans :
        c.api \in {"AddDomainRecord", "UpdateDomainRecord"}}

\* C6: every create or update request a Reconcile issues has type A exactly
\* when its value is an IPv4 literal and type AAAA exactly when its value is
\* an IPv6 literal, and its value is one of the two.
C6_TypeFollowsAddress ==
    \A c \in ReconcileCalls :
        /\ c.type = "A" <=> c.value \in IPv4Literals
        /\ c.type = "AAAA" <=> c.value \in IPv6Literals
        /\ c.value \in IPv4Literals \cup IPv6Literals

\* an update of type A with an IPv4 value and a create of type AAAA with an
\* IPv6 value have been served
C6_BothTypesIssued ==
    /\ \E c \in ReconcileCalls : /\ c.api = "UpdateDomainRecord" /\ c.returned = "ok"
                                 /\ c.type = "A" /\ c.value = Ip4
    /\ \E c \in ReconcileCalls : /\ c.api = "AddDomainRecord" /\ c.returned = "ok"
                                 /\ c.type = "AAAA" /\ c.value = Ip6

\* the record ids in the lists the worker has been answered with
ListedIds(w) ==
    UNION {RowIds(w.calls[k].resp) : k \in {k \in 1..Len(w.calls) :
        w.calls[k].api = "DescribeDomainRecords" /\ w.calls[k].returned = "ok"}}

\* C7: every update request carries the record id the find query of the same
\* Reconcile returned, and every status or delete request carries a record
\* id of a row the table has shown; the rows shown come from the provider's
\* answers to list requests, where every id is one the provider has given
\* out.
C7_RecordIdsFromProvider ==
    /\ \A w \in OpIds : \A i \in 1..Len(workers[w].calls) :
          LET c == workers[w].calls[i]
          IN  /\ c.api = "UpdateDomainRecord" =>
                    c.id > 0 /\ c.id = FoundBy(Earlier(workers[w].calls, i))
              /\ c.api \in {"SetDomainRecordStatus", "DeleteDomainRecord"} =>
                    c.id \in rendered_ids
    /\ \A i \in 1..Len(queue) :
          queue[i].sig = "records" =>
              RowIds(queue[i].records) \subseteq ListedIds(workers[queue[i].op])
    /\ RowIds(records_table) \subseteq rendered_ids
    /\ rendered_ids \subseteq 1..(next_id - 1)

\* an update with the id found and a status change with the id of a row
\* shown have both been served
C7_IdsUsed ==
    /\ \E w \in OpIds : \E i \in 1..Len(workers[w].calls) :
          /\ workers[w].calls[i].api = "UpdateDomainRecord"
          /\ workers[w].calls[i].returned = "ok"
    /\ \E w \in OpIds : \E i \in 1..Len(workers[w].calls) :
          /\ workers[w].calls[i].api = "SetDomainRecordStatus"
          /\ workers[w].calls[i].returned = "ok"

\* the outcome signals of a worker the UI thread has still to handle
OutcomeSignals(w) ==
    {i \in 1..Len(queue) :
        queue[i].thread = "worker" /\ queue[i].sig = "finished" /\ queue[i].op = w}

\* the outcomes of a worker that are in the log or on their way to it
Outcomes(w) == workers[w].logged + Cardinality(OutcomeSignals(w))

\* the text carries the provider's detail after the name of what failed
CarriesDetail(text) == \E api \in Apis : text = FailureText(api) \o ": " \o ProviderDetail

\* C8: a worker issues each kind of request at most once; a request that
\* fails is its last, and the failure is reported once, as a failure whose
\* text carries the provider's detail.
C8_NoRetrySingleError ==
    \A w \in OpIds :
        LET me == workers[w]
        IN  /\ \A i, j \in 1..Len(me.calls) : i < j => me.calls[i].api # me.calls[j].api
            /\ \A i \in 1..Len(me.calls) :
                  me.calls[i].returned = "error" =>
                      /\ i = Len(me.calls)
                      /\ me.state = "finished"
                      /\ me.result.tag = "operation failed"
                      /\ CarriesDetail(me.result.detail)
                      /\ Outcomes(w) = 1
                      /\ \A s \in OutcomeSignals(w) :
                            ~queue[s].success /\ queue[s].message = me.result

\* a request the provider could have served failed, and the log shows the
\* failure
C8_FailureLogged ==
    \E w \in OpIds :
        /\ workers[w].calls # <<>>
        /\ workers[w].calls[Len(workers[w].calls)].fault
        /\ workers[w].logged = 1
        /\ log.op = w /\ ~log.is_success
        /\ log.message = workers[w].result

\* C9: every operation that is started and is not superseded by a later user
\* action surfaces exactly one outcome in the log: a worker never has more
\* than one outcome, and one that has ended, otherwise than terminated by a
\* user action, has exactly one in the log or on its way to it.
C9_OneOutcomePerOperation ==
    \A w \in OpIds :
        /\ workers[w].kind # "none" => Outcomes(w) <= 1
        /\ (\/ workers[w].state = "finished"
            \/ workers[w].state = "terminated" /\ workers[w].killed_by # "user")
           => Outcomes(w) = 1

\* a domain refresh fetched the domains and was terminated by the record
\* refresh its own domain list started: no outcome of it is in the log or
\* on its way
C9_CompletionLost ==
    \E w \in OpIds :
        /\ workers[w].kind = "domains"
        /\ workers[w].state = "terminated"
        /\ workers[w].killed_by = "auto"
        /\ AllOk(workers[w].calls) /\ Len(workers[w].calls) = 1
        /\ Outcomes(w) = 0
        /\ n_actions = 0

\* C10: at most one WorkerThread is running and it is the one the handle
\* worker_thread holds; at most one UpdateCheckThread is running and it is
\* the one update_thread holds.
C10_OneWorkerPerSlot ==
    /\ \A w \in OpIds : workers[w].state = "running" => w = worker_thread
    /\ \A u \in OpIds : checks[u].state = "running" => u = update_thread
    /\ Cardinality({w \in OpIds : workers[w].state = "running"}) <= 1
    /\ Cardinality({u \in OpIds : checks[u].state = "running"}) <= 1

\* a running worker and a running update check were each terminated by the
\* action that started the one running now
C10_Superseded ==
    /\ IsRunning(workers, worker_thread)
    /\ \E w \in OpIds : workers[w].state = "terminated" /\ workers[w].killed_by = "user"
    /\ IsRunning(checks, update_thread)
    /\ \E u \in OpIds : checks[u].state = "terminated" /\ checks[u].killed_by = "user"


\* the UI thread handles a record list or an outcome of a worker that a
\* later user action has terminated
DeliversSuperseded ==
    /\ queue # <<>>
    /\ queue' = Tail(queue)
    /\ Head(queue).thread = "worker"
    /\ Head(queue).sig \in {"records", "finished"}
    /\ workers[Head(queue).op].state = "terminated"
    /\ workers[Head(queue).op].killed_by = "user"

\* C11: once a later action has superseded a worker, no record list and no
\* outcome message that worker emitted is applied to the record table or to
\* the log.
C11_StaleResultsDiscarded ==
    [][DeliversSuperseded => UNCHANGED <<records_table, log>>]_vars

\* the user has picked the second domain, whose record refresh has issued no
\* request yet, and the table, emptied by that action, shows the records
\* the superseded refresh fetched for the first domain
C11_StaleListShown ==
    /\ IsRunning(workers, worker_thread)
    /\ workers[worker_thread].kind = "records"
    /\ workers[worker_thread].main_domain = D2
    /\ workers[worker_thread].calls = <<>>
    /\ records_table # <<>>
    /\ records_table = get_domain_records(records, D1)
    /\ \E w \in OpIds : /\ workers[w].kind = "records"
                        /\ workers[w].main_domain = D1
                        /\ workers[w].state = "terminated"
                        /\ workers[w].killed_by = "user"

\* C12: no request is issued to the provider for an action that found the
\* stored configuration without the access key id or the access key secret:
\* every worker that has issued a request was started by an action that read
\* a complete configuration.
C12_NoCallWithoutCredentials ==
    \A w \in OpIds : workers[w].calls # <<>> => Complete(workers[w].key)

\* with the stored configuration emptied, set_dns_record has started a worker
\* that read no credentials and has had a request served through the client
\* built earlier
C12_CalledWithoutCredentials ==
    /\ ~Complete(config)
    /\ \E w \in OpIds :
          /\ workers[w].kind = "set"
          /\ workers[w].key = NoKey
          /\ workers[w].calls # <<>>
          /\ workers[w].calls[1].returned = "ok"
          /\ workers[w].calls[1].key = Key1

\* the handle holds a delete worker that has just been started
StartsDelete ==
    /\ worker_thread' # 0
    /\ workers'[worker_thread'] # workers[worker_thread']
    /\ workers'[worker_thread'].kind = "delete"
    /\ workers'[worker_thread'].state = "running"
    /\ workers'[worker_thread'].calls = <<>>

\* the delete requests issued so far, the ones on their way included
DeleteCalls ==
    {c \in UNION {{workers[w].calls[i] : i \in 1..Len(workers[w].calls)} : w \in OpIds}
            \cup orphans :
        c.api = "DeleteDomainRecord"}

\* C13: a delete request is issued only by a worker started on the Yes to the
\* second of two questions, the second opened by the Yes to the first, and
\* for the record the questions were about; answering No to either starts no
\* worker, issues no request and leaves the running worker as it is; the
\* client's delete_record removes the record whenever it is called.
C13_DeleteNeedsTwoConfirmations ==
    /\ [](\A c \in DeleteCalls :
            /\ workers[c.op].kind = "delete" => c.id = workers[c.op].record_id
            /\ c.id \in rendered_ids)
    /\ [](\A w \in OpIds : \A i \in 1..Len(workers[w].calls) :
            workers[w].calls[i].api = "DeleteDomainRecord" => workers[w].kind = "delete")
    /\ [](\A id \in 1..next_id : ~HasRecord(DeleteDomainRecord(records, id), id))
    /\ [][StartsDelete =>
            /\ modal.open /\ modal.stage = 2 /\ ~modal'.open
            /\ workers'[worker_thread'].record_id = modal.record_id]_vars
    /\ [][(modal'.open /\ modal'.stage = 2 /\ modal' # modal) =>
            /\ modal.open /\ modal.stage = 1
            /\ modal' = [modal EXCEPT !.stage = 2]
            /\ UNCHANGED <<worker_vars, records, queue>>]_vars
    /\ [][(modal.open /\ ~modal'.open /\ ~StartsDelete) =>
            UNCHANGED <<worker_vars, records, queue, log>>]_vars

\* the user answered Yes twice, the delete was served and the record is gone
C13_DeletedAfterTwoYes ==
    /\ ~modal.open
    /\ \E w \in OpIds :
          /\ workers[w].kind = "delete"
          /\ workers[w].calls # <<>>
          /\ workers[w].calls[1].api = "DeleteDomainRecord"
          /\ workers[w].calls[1].returned = "ok"
          /\ ~HasRecord(records, workers[w].record_id)

\* the status requests of a worker
StatusCalls(w) ==
    {w.calls[i] : i \in {i \in 1..Len(w.calls) : w.calls[i].api = "SetDomainRecordStatus"}}

\* the worker w, a status change, issues its list request in this step
ListsAfterStatus(w) ==
    /\ workers[w].kind = "toggle"
    /\ workers[w].state = "running"
    /\ workers'[w].kind = "toggle"
    /\ Len(workers'[w].calls) = Len(workers[w].calls) + 1
    /\ workers'[w].calls[Len(workers'[w].calls)].api = "DescribeDomainRecords"

\* C14 as the code has it: a status change issues at most one status
\* request, for the record of the row clicked, with status ENABLE or disable
\* (the pause button's value, in lower case), and exactly one once the worker
\* is past it; a status change that ran to the end fetched one list after its
\* status request and sent it to the view; the list is asked for the domain
\* selected when it is fetched and is the provider's answer for that domain.
C14_SetStatusOnceThenList ==
    /\ [](\A w \in OpIds :
            LET me == workers[w]
            IN  me.kind = "toggle" =>
                  /\ CountApi(me.calls, "SetDomainRecordStatus") <= 1
                  /\ \A c \in StatusCalls(me) :
                        /\ c.id = me.record_id /\ c.id \in rendered_ids
                        /\ c.status \in {"ENABLE", "disable"}
                  /\ (Mutated(me) \/ Completed(me)) =>
                        CountApi(me.calls, "SetDomainRecordStatus") = 1
                  /\ Completed(me) =>
                        /\ Cardinality(FreshLists(me)) = 1
                        /\ me.result.tag = "record status changed")
    /\ [](\A i \in 1..Len(queue) :
            (queue[i].sig = "records" /\ workers[queue[i].op].kind = "toggle")
            => queue[i].records \in FreshLists(workers[queue[i].op]))
    /\ [][\A w \in OpIds : ListsAfterStatus(w) =>
            LET c == workers'[w].calls[Len(workers'[w].calls)]
            IN  /\ c.domain = CurrentText(domain_combo)
                /\ c.returned = "ok" =>
                      /\ c.resp = get_domain_records(records, CurrentText(domain_combo))
                      /\ queue' = Append(queue, [Sig("worker", "records", w)
                                                    EXCEPT !.records = c.resp])]_vars

\* C14: every status request carries the status ENABLE or the status DISABLE,
\* and a status change issues at most one.
C14_StatusEnableOrDisable ==
    \A w \in OpIds :
        /\ CountApi(workers[w].calls, "SetDomainRecordStatus") <= 1
        /\ \A c \in StatusCalls(workers[w]) : c.status \in {"ENABLE", "DISABLE"}

\* the pause button and then the enable button of a row were clicked; both
\* status changes were served, the second ran to the end and the table shows
\* the list it fetched
C14_PausedAndEnabled ==
    \E w, v \in OpIds :
        /\ workers[w].kind = "toggle" /\ workers[w].status = "disable"
        /\ Mutated(workers[w])
        /\ workers[v].kind = "toggle" /\ workers[v].status = "ENABLE"
        /\ Completed(workers[v])
        /\ records_table \in FreshLists(workers[v])
        /\ \E r \in 1..Len(records_table) : records_table[r].status = "ENABLE"

\* (A, B, C) is greater than (X, Y, Z) in lexicographic order
LexGreater(l, c) ==
    \/ l[1] > c[1]
    \/ l[1] = c[1] /\ l[2] > c[2]
    \/ l[1] = c[1] /\ l[2] = c[2] /\ l[3] > c[3]

\* C15: for well-formed versions latest = vA.B.C and current = vX.Y.Z,
\* is_new_version(latest, current) is true exactly when (A, B, C) is greater
\* than (X, Y, Z) in lexicographic order; both match the tag pattern.
C15_NewerIffLexGreater ==
    (frame.fn = "is_new_version" /\ frame.pc = "ret") =>
        /\ VersionMatch(frame.args[1]) /\ VersionMatch(frame.args[2])
        /\ frame.ret <=> LexGreater(frame.about[1], frame.about[2])

\* v2.10.0 was found newer than v2.9.9
C15_TenAfterNine ==
    /\ frame.fn = "is_new_version" /\ frame.pc = "ret"
    /\ frame.about = << <<2, 10, 0>>, <<2, 9, 9>> >>
    /\ frame.ret = TRUE

\* the signals of update checks that found a tag not of the form
\* vMAJOR.MINOR.PATCH, and those of checks whose fetch failed
InvalidFormatSignals ==
    {i \in 1..Len(queue) : /\ queue[i].thread = "check"
                           /\ queue[i].message.tag = "invalid version format"}

FetchFailureSignals ==
    {i \in 1..Len(queue) : /\ queue[i].thread = "check"
                           /\ queue[i].message.tag \in FetchFailures}

\* C16: a fetched tag that does not match vMAJOR.MINOR.PATCH is not compared
\* and ends the check with an invalid-format outcome, which is neither the
\* no-update outcome nor the check-failed outcome that network and HTTP
\* failures end with.
C16_InvalidFormatDistinct ==
    /\ \A i \in 1..Len(queue) :
          (queue[i].thread = "check" /\ queue[i].sig \in {"update_available", "no_update"})
          => VersionMatch(queue[i].message.version) \/ queue[i].sig = "no_update"
    /\ \A i \in InvalidFormatSignals :
          /\ ~VersionMatch(queue[i].message.version)
          /\ queue[i].sig # "no_update"
          /\ queue[i].sig # "check_failed"
    /\ \A i \in FetchFailureSignals : queue[i].sig = "check_failed"

\* the log shows the check that fetched the tag 2.0.1 as a failed update
\* check, as it shows a check whose fetch failed
C16_LoggedAsCheckFailed ==
    /\ log.message.tag = "update check failed"
    /\ log.message.detail = "invalid version format"
    /\ log.message.version = TagNoV
    /\ ~log.is_success

\* C17: is_valid_ipv4 accepts a text exactly when it consists of four
\* dot-separated decimal segments, each denoting a value in 0..255, with
\* nothing before and nothing after.
C17_Ipv4ExactlyFourOctets ==
    (frame.fn = "is_valid_ipv4" /\ frame.pc = "ret") =>
        (frame.ret <=> IsIPv4Literal(frame.args[1]))

\* is_valid_ipv4 has refused 0.0.0.256
C17_Refused256 ==
    /\ frame.fn = "is_valid_ipv4" /\ frame.pc = "ret"
    /\ frame.args[1] = <<"0", ".", "0", ".", "0", ".", "2", "5", "6">>
    /\ frame.ret = FALSE

\* a group of one to four hex digits
IsHexGroup(g) == Len(g) \in 1..4 /\ \A i \in 1..Len(g) : g[i] \in HexDigits

\* a group of more than four hex digits, or with a character that is not a
\* hex digit
IsBadGroup(g) == Len(g) > 4 \/ \E i \in 1..Len(g) : g[i] \notin HexDigits

\* C18: is_valid_ipv6 accepts every text of eight colon-separated groups of
\* one to four hex digits, and refuses every text of eight groups one of
\* which has more than four hex digits or a character that is not a hex
\* digit.
C18_Ipv6EightGroups ==
    (frame.fn = "is_valid_ipv6" /\ frame.pc = "ret") =>
        LET groups == Split(frame.args[1], ":")
        IN  Len(groups) = 8 =>
              /\ (\A i \in 1..8 : IsHexGroup(groups[i])) => frame.ret = TRUE
              /\ (\E i \in 1..8 : IsBadGroup(groups[i])) => frame.ret = FALSE

\* is_valid_ipv6 has accepted an address with groups in upper and lower case
C18_AcceptedMixedCase ==
    /\ frame.fn = "is_valid_ipv6" /\ frame.pc = "ret"
    /\ frame.args[1] = Join(GroupsWith(8, 1, <<"A", "b", "C", "d">>,
                                           8, <<"f", "f", "f", "f">>), ":")
    /\ frame.ret = TRUE

\* the text has a double colon
DoubleColon(s) == \E k \in 1..(Len(s) - 1) : s[k] = ":" /\ s[k + 1] = ":"

\* the compressed IPv6 forms among the texts typed
CompressedForms == {s \in IPv6Literals : DoubleColon(s)}

\* C19: a compressed double-colon IPv6 form is accepted as IPv6:
\* set_dns_record does not refuse it as an invalid address.
C19_CompressedAccepted ==
    (event.action = "set_dns_record" /\ event.ip \in CompressedForms)
        => event.warning \notin AddressWarnings

\* set_dns_record has refused ::1 with the warning about the address
C19_CompressedRefused ==
    /\ event.action = "set_dns_record"
    /\ event.ip = IpCompressed
    /\ IpCompressed \in CompressedForms
    /\ event.warning = "enter a valid IPv4 or IPv6 address"
    /\ CurrentText(domain_combo) # ""

\* the provider's records of the domain that have type A or AAAA, in the
\* provider's order
AddressRecords(recs, main_domain) ==
    SelectSeq(recs, LAMBDA r : r.DomainName = main_domain /\ r.Type \in {"A", "AAAA"})

\* C20: get_domain_records returns, in the provider's order, exactly the
\* provider's records of type A or AAAA of the domain, each with full_domain
\* equal to the domain when rr is "@" and to rr.domain otherwise.
C20_ListIsAddressRecords ==
    (frame.fn = "get_domain_records" /\ frame.pc = "ret") =>
        LET main_domain == frame.args[2]
            want == AddressRecords(frame.args[1], main_domain)
            got == frame.ret
        IN  /\ Len(got) = Len(want)
            /\ \A i \in 1..Len(got) :
                  /\ got[i].record_id = want[i].RecordId
                  /\ got[i].rr = want[i].RR
                  /\ got[i].type = want[i].Type
                  /\ got[i].type \in {"A", "AAAA"}
                  /\ got[i].value = want[i].Value
                  /\ got[i].status = want[i].Status
                  /\ got[i].full_domain = IF want[i].RR = "@" THEN main_domain
                                          ELSE want[i].RR \o "." \o main_domain

\* get_domain_records returned no record for a domain whose A record comes
\* after a full page of other records
C20_RecordBeyondPageMissing ==
    /\ frame.fn = "get_domain_records" /\ frame.pc = "ret"
    /\ Len(frame.args[1]) = PageSize + 1
    /\ frame.args[1][PageSize + 1].Type = "A"
    /\ frame.args[1][PageSize + 1].DomainName = frame.args[2]
    /\ frame.ret = <<>>

(***************************************************************************)
(* The result of a Reconcile and the record it names.                      *)
(***************************************************************************)
\* the successful mutation among the calls (a worker makes at most one)
MutationOf(calls) ==
    calls[CHOOSE i \in 1..Len(calls) :
             calls[i].api \in Mutations /\ calls[i].returned = "ok"]

\* the number formatted into a message is the record id `id`
NamesRecord(message, id) == message.n = id

\* C21: the success result of a Reconcile says "updated" when the Reconcile
\* updated a record and "added" when it created one, and includes the
\* provider's record id of the record that was updated or created.
C21_ResultNamesRecord ==
    \A w \in OpIds :
        LET me == workers[w]
        IN  (me.kind = "set" /\ Completed(me)) =>
              /\ me.result.tag = IF MutationOf(me.calls).api = "UpdateDomainRecord"
                                 THEN "updated" ELSE "added"
              /\ NamesRecord(me.result, MutationOf(me.calls).found)

\* the part of C21 about the two words: "updated" after an update, "added"
\* after a create
C21_UpdatedOrAdded ==
    \A w \in OpIds :
        LET me == workers[w]
        IN  (me.kind = "set" /\ Completed(me)) =>
              me.result.tag = IF MutationOf(me.calls).api = "UpdateDomainRecord"
                              THEN "updated" ELSE "added"

\* a Reconcile updated record 1 and its result, "updated www.a.com A
\* 1.2.3.4", carries no number
C21_ResultWithoutRecordId ==
    \E w \in OpIds :
        /\ workers[w].kind = "set"
        /\ Completed(workers[w])
        /\ MutationOf(workers[w].calls).api = "UpdateDomainRecord"
        /\ MutationOf(workers[w].calls).found = 1
        /\ workers[w].result = [M("updated") EXCEPT !.sub = "www", !.main = D1,
                                                    !.type = "A", !.ip = Ip4]

(***************************************************************************)
(* A Reconcile on a name with several records.                             *)
(***************************************************************************)
\* the places in the provider's list of the records of a name and type
Matching(recs, full_domain, type) ==
    {i \in 1..Len(recs) : /\ recs[i].Type = type
                          /\ recs[i].DomainName # ""
                          /\ full_domain = IF recs[i].RR = "@" THEN recs[i].DomainName
                                           ELSE recs[i].RR \o "." \o recs[i].DomainName}

Lowest(places) == CHOOSE i \in places : \A j \in places : i <= j

\* the step in which the find query of worker w is answered
FindAnswered(w) == workers[w].pc = "find" /\ workers'[w].pc = "mutate"

\* the step in which the update of worker w, a Reconcile, is served
UpdateAnswered(w) ==
    /\ workers[w].kind = "set" /\ workers[w].record_id # 0
    /\ workers[w].pc = "mutate" /\ workers'[w].pc = "list"

\* the provider's list differs from recs in the record `id` alone, which
\* has the rr, type and value given
OnlyChanged(recs, id, rr, type, value) ==
    /\ Len(records') = Len(recs)
    /\ \A i \in 1..Len(recs) :
          records'[i] = IF recs[i].RecordId = id
                        THEN [recs[i] EXCEPT !.RR = rr, !.Type = type, !.Value = value]
                        ELSE recs[i]

\* C22: when the provider holds more than one record for the (fullDomain,
\* type) of a Reconcile, the find query yields the id of the first of them
\* in the provider's list order; the update of a Reconcile is one request,
\* for the id found, and it changes that record and no other record of the
\* provider, whether the worker receives the answer or was terminated with
\* the request on its way.
C22_FirstMatchUpdated ==
    [][/\ \A w \in OpIds :
            LET me == workers[w]
                places == Matching(records, FullDomain(me.sub_domain, me.main_domain),
                                   me.record_type)
            IN  /\ (FindAnswered(w) /\ Cardinality(places) > 1) =>
                      /\ workers'[w].record_id = records[Lowest(places)].RecordId
                      /\ records' = records
                /\ UpdateAnswered(w) =>
                      /\ OnlyChanged(records, me.record_id, me.sub_domain,
                                     me.record_type, me.ip_address)
                      /\ CountApi(workers'[w].calls, "UpdateDomainRecord") = 1
                      /\ CountApi(workers'[w].calls, "AddDomainRecord") = 0
                      /\ FoundBy(workers'[w].calls) = me.record_id
       /\ \A o \in orphans :
            (o.api = "UpdateDomainRecord" /\ o \notin orphans' /\ records' # records) =>
                OnlyChanged(records, o.id, o.rr, o.type, o.value)
      ]_vars

\* www.a.com had the A records 3 and 2, in this order; a Reconcile found 3,
\* updated it to 1.2.3.4 and reported "updated"; record 2 is as it was
C22_FirstUpdatedSecondKept ==
    /\ \E w \in OpIds :
          /\ workers[w].kind = "set"
          /\ Completed(workers[w])
          /\ FoundBy(workers[w].calls) = 3
          /\ workers[w].result.tag = "updated"
    /\ records = <<Rec(1, D1, "www", "CNAME", <<"x">>, "ENABLE"),
                   Rec(3, D1, "www", "A", Ip4, "ENABLE"),
                   Rec(2, D1, "www", "A", Ip4Other, "DISABLE")>>

(***************************************************************************)
(* The order of the steps of a Reconcile.                                  *)
(***************************************************************************)
\* the apis of the requests, in the order they were issued
ApisOf(calls) == [i \in 1..Len(calls) |-> calls[i].api]

\* the worker at place w issues a request in this step
Issues(w) == workers'[w].calls # <<>> /\ workers'[w].calls # workers[w].calls

\* C23: the steps of a Reconcile come in the order classify, query, mutate,
\* re-fetch.  Each request of a Reconcile is added to the ones it has issued
\* so far; the record type is fixed when the first request is issued and
\* does not change; the first request is the query for the existing record;
\* the second is the update or create, issued only when the query has
\* returned without error; the third is the list request, issued only when
\* the mutation has returned without error; there is no fourth; and a
\* Reconcile returns its result only after all three.
C23_StepsInOrder ==
    [][\A w \in OpIds :
          LET me == workers[w]
              after == workers'[w]
              n == Len(after.calls)
          IN  /\ (after.kind = "set" /\ Issues(w)) =>
                    /\ me.kind = "set"
                    /\ SubSeq(after.calls, 1, n - 1) = me.calls
                    /\ me.record_type \in {"A", "AAAA"}
                    /\ after.record_type = me.record_type
                    /\ n <= 3
                    /\ n = 1 => /\ after.calls[1].api = "DescribeSubDomainRecords"
                                /\ after.calls[1].type = me.record_type
                    /\ n = 2 => /\ me.calls[1].api = "DescribeSubDomainRecords"
                                /\ me.calls[1].returned = "ok"
                                /\ after.calls[2].api \in {"UpdateDomainRecord",
                                                           "AddDomainRecord"}
                                /\ after.calls[2].type = me.record_type
                    /\ n = 3 => /\ me.calls[2].api \in {"UpdateDomainRecord",
                                                        "AddDomainRecord"}
                                /\ me.calls[2].returned = "ok"
                                /\ after.calls[3].api = "DescribeDomainRecords"
              /\ (me.kind = "set" /\ me.pc = "return" /\ after.state = "finished") =>
                    /\ Len(me.calls) = 3
                    /\ AllOk(me.calls)
      ]_vars

\* a Reconcile ran to the end: query, then update, then list, each answered
C23_QueryUpdateList ==
    \E w \in OpIds :
        /\ workers[w].kind = "set"
        /\ workers[w].state = "finished"
        /\ ApisOf(workers[w].calls) =
              <<"DescribeSubDomainRecords", "UpdateDomainRecord", "DescribeDomainRecords">>
        /\ AllOk(workers[w].calls)

(***************************************************************************)
(* Failures of the query and of the mutation.                              *)
(***************************************************************************)
MutatingKinds == {"set", "toggle", "delete"}

\* the last request of the worker is of one of `apis` and raised
LastFailed(w, apis) ==
    /\ w.calls # <<>>
    /\ w.calls[Len(w.calls)].api \in apis
    /\ w.calls[Len(w.calls)].returned = "error"

\* the step in which the request of worker w at `pc` raises
Fails(w, pc, apis) ==
    /\ workers[w].state = "running" /\ workers[w].pc = pc
    /\ workers'[w].state = "finished"
    /\ LastFailed(workers'[w], apis)

\* the one signal the step puts in the queue is a failure of worker w
OnlyFailureEmitted(w) ==
    /\ Len(queue') = Len(queue) + 1
    /\ SubSeq(queue', 1, Len(queue)) = queue
    /\ queue'[Len(queue')].sig = "finished"
    /\ queue'[Len(queue')].op = w
    /\ ~queue'[Len(queue')].success

\* C24: a Reconcile whose find query failed has issued no create and no
\* update, and the step in which the query fails leaves the provider's
\* records as they are; a Reconcile, status change or delete whose mutation
\* failed has issued no list request, and the step in which the mutation
\* fails leaves the record table as it is and puts nothing but the failure
\* in the UI thread's queue, so that the action brings no list to the table.
C24_FailureStopsTheAction ==
    /\ [](\A w \in OpIds :
            LET me == workers[w]
            IN  /\ (me.kind = "set" /\ me.calls # <<>> /\ me.calls[1].returned = "error") =>
                      /\ Len(me.calls) = 1
                      /\ \A api \in Mutations : CountApi(me.calls, api) = 0
                /\ (me.kind \in MutatingKinds
                    /\ \E i \in 1..Len(me.calls) :
                          me.calls[i].api \in Mutations /\ me.calls[i].returned = "error") =>
                      /\ LastFailed(me, Mutations)
                      /\ CountApi(me.calls, "DescribeDomainRecords") = 0
                      /\ me.state \in {"finished", "terminated"})
    /\ [][\A w \in OpIds :
            /\ Fails(w, "find", {"DescribeSubDomainRecords"}) =>
                  /\ UNCHANGED <<records, next_id, records_table>>
                  /\ OnlyFailureEmitted(w)
            /\ (workers[w].kind \in MutatingKinds /\ Fails(w, "mutate", Mutations)) =>
                  /\ UNCHANGED records_table
                  /\ OnlyFailureEmitted(w)
         ]_vars

\* the find query of a Reconcile failed and so did the mutation of a status
\* change: each worker ended with that request, and the table still shows
\* the record as the provider holds it
C24_QueryFailedAndMutationFailed ==
    \E w, v \in OpIds :
        /\ workers[w].kind = "set"
        /\ ApisOf(workers[w].calls) = <<"DescribeSubDomainRecords">>
        /\ LastFailed(workers[w], {"DescribeSubDomainRecords"})
        /\ workers[v].kind = "toggle"
        /\ ApisOf(workers[v].calls) = <<"SetDomainRecordStatus">>
        /\ LastFailed(workers[v], Mutations)
        /\ Len(records_table) = 1
        /\ records_table[1].status = "ENABLE"

(***************************************************************************)
(* What a reported failure says about the provider.                        *)
(***************************************************************************)
\* C25: a Reconcile, status change or delete that reports failure has not
\* changed the provider's records: no worker whose mutation returned
\* successfully ends with the failure message.
C25_FailureMeansUnchanged ==
    \A w \in OpIds :
        LET me == workers[w]
        IN  (me.kind \in MutatingKinds /\ me.state = "finished"
             /\ me.result.tag = "operation failed") => ~Mutated(me)

\* a status change paused record 1 at the provider, its list request then
\* failed, and the log shows the action as failed
C25_PausedButReportedFailed ==
    \E w \in OpIds :
        /\ workers[w].kind = "toggle"
        /\ ApisOf(workers[w].calls) = <<"SetDomainRecordStatus", "DescribeDomainRecords">>
        /\ workers[w].calls[1].returned = "ok"
        /\ workers[w].calls[2].returned = "error"
        /\ log.op = w /\ ~log.is_success
        /\ log.message = FailureMessage("DescribeDomainRecords")
        /\ \E i \in 1..Len(records) : /\ records[i].RecordId = 1
                                      /\ records[i].Status = "DISABLE"
        /\ Len(records_table) = 1 /\ records_table[1].status = "ENABLE"

(***************************************************************************)
(* The credentials a request is signed with.                               *)
(***************************************************************************)
\* C26: every request of a record refresh, Reconcile, status change or
\* delete is issued through a client built from the credentials the
\* configuration held when the action was started.
C26_CallsUseStoredCredentials ==
    \A w \in OpIds :
        workers[w].kind \in MutatingKinds \cup {"records"} =>
            \A i \in 1..Len(workers[w].calls) :
                workers[w].calls[i].key = workers[w].key

\* the user saved a configuration with the credentials removed and then
\* changed a record's status: the action read the empty credentials, its
\* request went out under id1/s1, and the provider served it
C26_OldCredentialsUsed ==
    \E w \in OpIds :
        /\ config = NoKey
        /\ workers[w].kind = "toggle"
        /\ workers[w].key = NoKey
        /\ ApisOf(workers[w].calls) = <<"SetDomainRecordStatus">>
        /\ workers[w].calls[1].key = Key1
        /\ workers[w].calls[1].returned = "ok"
        /\ dns_client = Client(Key1)

\* the same after the user saved the credentials id2/s2: the status change
\* terminated the domain refresh of the save before it had built its client
C26_OldCredentialsAfterNewOnes ==
    \E w \in OpIds :
        /\ config = Key2
        /\ workers[w].kind = "toggle"
        /\ workers[w].key = Key2
        /\ ApisOf(workers[w].calls) = <<"SetDomainRecordStatus">>
        /\ workers[w].calls[1].key = Key1
        /\ workers[w].calls[1].returned = "ok"
        /\ dns_client = Client(Key1)

====
